---- MODULE Spec2Model ----
(***************************************************************************)
(* Verification model of the kevinblog scripts:                            *)
(*   scripts/image_optimizer.py   (ImageOptimizer)                         *)
(*   scripts/seo_analyzer.py      (SEOAnalyzer, main)                      *)
(*   scripts/generate_post.py     (main and its helpers)                   *)
(*   scripts/create_post_auto.py, scripts/create_post_interactive.py       *)
(*                                (AutoPostCreator, InteractivePostCreator)*)
(***************************************************************************)
EXTENDS Integers, Sequences, FiniteSets, TLC

VARIABLES
    posts,      \* _posts and _drafts: file -> document stored in it
    source,     \* the image file the next image call is pointed at
    assets,     \* assets/img/posts: file name -> written file
    clock,      \* datetime.now(), in whole seconds
    call,       \* the last optimize_image / resize call and its outcome
    analyses,   \* main(): the list of analyses collected so far
    report,     \* main(): the report written to seo_report.md
    phase,      \* main(): position in the batch run
    env,        \* the environment variables the generator scripts read
    run,        \* the generator script (or batch call) in progress
    trace       \* what the run did to the outside world, in order

vars == <<posts, source, assets, clock, call, analyses, report, phase,
          env, run, trace>>

(***************************************************************************)
(* Bounds of the model.                                                    *)
(***************************************************************************)
DimSlack == 1     \* pixel sizes within DimSlack of every size threshold
MaxPosts == 2     \* files under _posts in one batch run
MaxDrafts == 1    \* files under _drafts in one batch run
LenSlack == 1     \* text lengths within LenSlack of every length threshold
MaxClock == 1     \* seconds that pass while a script writes its images
MaxRounds == 2    \* rounds of the inline-image loop of add_images
MaxBatch == 3     \* paths in one batch_optimize call

(***************************************************************************)
(* Python float arithmetic (IEEE-754 binary64, round to nearest even) on   *)
(* quotients of small positive integers, followed by int() truncation.     *)
(* Everything is computed on integers: the rounding error of a / b is the  *)
(* remainder of a * 2^e modulo b, where e places the quotient's leading    *)
(* bit at position 52.                                                     *)
(***************************************************************************)
RECURSIVE pow2(_)
pow2(k) == IF k <= 0 THEN 1 ELSE 2 * pow2(k - 1)

RECURSIVE LogUp(_, _)
LogUp(num, den) == IF num >= 2 * den THEN 1 + LogUp(num, 2 * den) ELSE 0

RECURSIVE LogDown(_, _)
LogDown(num, den) == IF num < den THEN LogDown(2 * num, den) - 1 ELSE 0

\* floor(log2(num / den)) for num, den > 0
FloorLog2(num, den) ==
    IF num >= den THEN LogUp(num, den) ELSE LogDown(num, den)

\* (a * 2^e) mod m
RECURSIVE ShiftMod(_, _, _)
ShiftMod(a, e, m) == IF e <= 0 THEN a % m ELSE (2 * ShiftMod(a, e - 1, m)) % m

\* exponent of the last double strictly below the integer n >= 1
BinadeBelow(n) ==
    LET l == FloorLog2(n, 1) IN IF n = pow2(l) THEN l - 1 ELSE l

\* int(x * (a / b)): the quotient is rounded to a double, the product is
\* rounded again, int() truncates.  The result is floor(x*a/b) except when
\* x*a/b is an integer n and the two roundings leave the product below n.
IntOfProduct(x, a, b) ==
    LET n   == (x * a) \div b
        lq  == FloorLog2(a, b)
        rem == ShiftMod(a, 52 - lq, b)
    IN  IF (x * a) % b # 0 \/ n = 0 THEN n
        ELSE IF rem = 0 \/ 2 * rem > b THEN n
        ELSE IF 2 * x * rem > b * pow2(BinadeBelow(n) - lq) THEN n - 1
        ELSE n

\* int(x / (a / b)): as above for a division by the rounded quotient.
IntOfQuotient(x, a, b) ==
    LET n   == (x * b) \div a
        lq  == FloorLog2(a, b)
        rem == ShiftMod(a, 52 - lq, b)
        k   == BinadeBelow(n) - lq - 1
    IN  IF (x * b) % a # 0 \/ n = 0 THEN n
        ELSE IF rem = 0 \/ 2 * rem < b THEN n
        ELSE IF k >= 0
             THEN (IF n * (b - rem) > a * pow2(k) THEN n - 1 ELSE n)
             ELSE (IF n * (b - rem) * pow2(0 - k) > a THEN n - 1 ELSE n)

(***************************************************************************)
(* Pillow image operations, as far as sizes, modes and formats go.         *)
(* An image is [width, height, mode, format]; an operation that raises     *)
(* returns [ok |-> FALSE, error |-> ...].                                  *)
(***************************************************************************)
Ok(img) == [ok |-> TRUE, img |-> img]
Raise(e) == [ok |-> FALSE, error |-> e]

\* Image.resize((w, h), LANCZOS): a new image without format; an empty
\* target size is rejected.
resize(img, w, h) ==
    IF w < 1 \/ h < 1 THEN Raise("ValueError")
    ELSE Ok([img EXCEPT !.width = w, !.height = h, !.format = "None"])

\* Image.crop((left, upper, right, lower)): the size of the box, whether or
\* not the box lies inside the image.
crop(img, left, upper, right, lower) ==
    IF right < left \/ lower < upper THEN Raise("ValueError")
    ELSE Ok([img EXCEPT !.width = right - left, !.height = lower - upper,
                        !.format = "None"])

\* Image.rotate(angle, expand=True) for the right angles used here: the
\* pixels are turned counter-clockwise by angle (turn counts the degrees
\* since the file was decoded).
rotate(img, angle) ==
    IF angle = 180
    THEN [img EXCEPT !.format = "None", !.turn = (img.turn + angle) % 360]
    ELSE [img EXCEPT !.width = img.height, !.height = img.width,
                     !.format = "None", !.turn = (img.turn + angle) % 360]

(***************************************************************************)
(* ImageOptimizer (scripts/image_optimizer.py).                            *)
(***************************************************************************)
max_width == 1000          \* ImageOptimizer.__init__ default
quality == 85              \* ImageOptimizer.__init__ default
thumbnail_width == 1200    \* optimize_image: _resize_for_thumbnail(img, 1200, 630)
thumbnail_height == 630

\* modes the JPEG encoder writes; any other mode makes Image.save raise
\* OSError("cannot write mode ... as JPEG") after the file has been opened
JpegModes == {"RGB", "L"}

\* img._getexif().get(0x0112): only JPEG images have _getexif (any other
\* format raises AttributeError), a damaged EXIF block raises while it is
\* parsed (orientation -1), 0 stands for no EXIF or no orientation tag.
getexif_orientation(img) ==
    IF img.format # "JPEG" \/ img.orientation = -1 THEN Raise("exif")
    ELSE [ok |-> TRUE, orientation |-> img.orientation]

\* the two quarter turns exchanged
rotations_exchanged == (3 :> 180) @@ (6 :> 90) @@ (8 :> 270)
\* rotations = {3: 180, 6: 270, 8: 90}
rotations == (3 :> 180) @@ (6 :> 270) @@ (8 :> 90)

\* ImageOptimizer._fix_orientation: every exception is swallowed.
fix_orientation(img) ==
    LET exif == getexif_orientation(img) IN
    IF ~exif.ok THEN img
    ELSE IF exif.orientation # 0 /\ exif.orientation \in DOMAIN rotations
         THEN rotate(img, rotations[exif.orientation])
         ELSE img

\* the cover-crop without its crop step: scale to cover the box, keep the excess
resize_for_thumbnail_nocrop(img, target_width, target_height) ==
    IF img.width * target_height > target_width * img.height
    THEN resize(img, IntOfProduct(target_height, img.width, img.height),
                target_height)
    ELSE resize(img, target_width,
                IntOfQuotient(target_width, img.width, img.height))

\* ImageOptimizer._resize_for_thumbnail.  The comparison of the two float
\* ratios agrees with the comparison of the exact ratios: distinct quotients
\* of integers of this size never round to the same double.
resize_for_thumbnail(img, target_width, target_height) ==
    IF img.width * target_height > target_width * img.height
    THEN LET new_width == IntOfProduct(target_height, img.width, img.height)
             r == resize(img, new_width, target_height)
             left == (new_width - target_width) \div 2
         IN  IF ~r.ok THEN r
             ELSE crop(r.img, left, 0, left + target_width, target_height)
    ELSE LET new_height == IntOfQuotient(target_width, img.width, img.height)
             r == resize(img, target_width, new_height)
             top == (new_height - target_height) \div 2
         IN  IF ~r.ok THEN r
             ELSE crop(r.img, 0, top, target_width, top + target_height)

\* the width cap applied without its width test: narrow images are scaled up
resize_inline_always(img) ==
    resize(img, max_width, IntOfProduct(img.height, max_width, img.width))

\* optimize_image, "リサイズ処理": the inline branch caps the width only.
resize_inline(img) ==
    IF img.width > max_width
    THEN resize(img, max_width, IntOfProduct(img.height, max_width, img.width))
    ELSE Ok(img)

resize_step(img, is_thumbnail) ==
    IF is_thumbnail
    THEN resize_for_thumbnail(img, thumbnail_width, thumbnail_height)
    ELSE resize_inline(img)

\* optimize_image, "ファイル名の生成": img_<timestamp>_<md5 of the source path>.<ext>
NoName == [prefix |-> "", ts |-> -1, tag |-> "", ext |-> ""]
auto_filename(src, now) ==
    [prefix |-> "img", ts |-> now, tag |-> src.path,
     ext |-> IF src.format \in {"JPEG", "JPG"} THEN "jpg" ELSE "png"]

\* optimize_image, "RGB変換": the encoder chosen for the image and the mode
\* it is handed over in.
save_plan(img, original_format) ==
    IF img.mode \in {"RGBA", "P"}
    THEN IF original_format = "PNG" /\ img.mode = "RGBA"
         THEN [encoder |-> "PNG", mode |-> img.mode, exif |-> FALSE]
         ELSE [encoder |-> "JPEG", mode |-> "RGB", exif |-> TRUE]
    ELSE [encoder |-> "JPEG", mode |-> img.mode, exif |-> TRUE]

\* Image.save(save_path, ...): the file is opened for writing (created, or
\* truncated when it exists) and the encoder then writes into it.  When the
\* encoder raises, an existing file stays truncated; a file this call
\* created is removed or left behind, depending on the Pillow release
\* (removes_created).
image_save(fs, name, img, plan, exif, removes_created) ==
    IF plan.encoder = "JPEG" /\ plan.mode \notin JpegModes
    THEN [raised |-> "OSError",
          fs |-> IF name \in DOMAIN fs
                    THEN [fs EXCEPT ![name] = [state |-> "truncated"]]
                 ELSE IF removes_created THEN fs
                 ELSE (name :> [state |-> "truncated"]) @@ fs]
    ELSE [raised |-> "none",
          fs |-> (name :> [state |-> "complete", encoding |-> plan.encoder,
                           orientation |-> IF plan.exif THEN exif ELSE 0,
                           turn |-> img.turn])
                 @@ fs]

\* optimize_image opening its output file before it looks for the source
optimize_image_output_first(fs, now, src, target_filename, is_thumbnail, removes_created) ==
    IF ~src.exists
    THEN [raised |-> "FileNotFoundError",
          fs |-> (IF target_filename = NoName
                  THEN auto_filename(src, now) ELSE target_filename)
                 :> [state |-> "truncated"] @@ fs]
    ELSE IF ~src.decodable THEN [raised |-> "UnidentifiedImageError", fs |-> fs]
    ELSE
    LET opened == [width |-> src.width, height |-> src.height,
                   mode |-> src.mode, format |-> src.format,
                   orientation |-> src.orientation, turn |-> 0]
        original_format == opened.format
        original_dimensions == <<opened.width, opened.height>>
        \* img.info.get('exif', b''): the raw EXIF block of the source
        exif == IF src.orientation = -1 THEN 0 ELSE src.orientation
        fixed == fix_orientation(opened)
        resized == resize_step(fixed, is_thumbnail)
        name == IF target_filename = NoName
                THEN auto_filename(src, now) ELSE target_filename
    IN  IF ~resized.ok THEN [raised |-> resized.error, fs |-> fs]
        ELSE
        LET img == resized.img
            saved == image_save(fs, name, img, save_plan(img, original_format),
                                exif, removes_created)
        IN  IF saved.raised # "none"
            THEN [raised |-> saved.raised, fs |-> saved.fs, save_path |-> name]
            ELSE [raised |-> "none", fs |-> saved.fs, save_path |-> name,
                  info |-> [optimized_path |-> name,
                            original_dimensions |-> original_dimensions,
                            optimized_dimensions |-> <<img.width, img.height>>,
                            format |-> img.format]]

\* ImageOptimizer.optimize_image: the outcome of one call on the source file
\* src with the assets directory fs at time now.
optimize_image(fs, now, src, target_filename, is_thumbnail, removes_created) ==
    IF ~src.exists THEN [raised |-> "FileNotFoundError", fs |-> fs]
    ELSE IF ~src.decodable THEN [raised |-> "UnidentifiedImageError", fs |-> fs]
    ELSE
    LET opened == [width |-> src.width, height |-> src.height,
                   mode |-> src.mode, format |-> src.format,
                   orientation |-> src.orientation, turn |-> 0]
        original_format == opened.format
        original_dimensions == <<opened.width, opened.height>>
        \* img.info.get('exif', b''): the raw EXIF block of the source
        exif == IF src.orientation = -1 THEN 0 ELSE src.orientation
        fixed == fix_orientation(opened)
        resized == resize_step(fixed, is_thumbnail)
        name == IF target_filename = NoName
                THEN auto_filename(src, now) ELSE target_filename
    IN  IF ~resized.ok THEN [raised |-> resized.error, fs |-> fs]
        ELSE
        LET img == resized.img
            saved == image_save(fs, name, img, save_plan(img, original_format),
                                exif, removes_created)
        IN  IF saved.raised # "none"
            THEN [raised |-> saved.raised, fs |-> saved.fs, save_path |-> name]
            ELSE [raised |-> "none", fs |-> saved.fs, save_path |-> name,
                  info |-> [optimized_path |-> name,
                            original_dimensions |-> original_dimensions,
                            optimized_dimensions |-> <<img.width, img.height>>,
                            format |-> img.format]]

(***************************************************************************)
(* The thumbnail helpers of the two post creators: the same routine under  *)
(* two more names.                                                         *)
(***************************************************************************)
\* AutoPostCreator.resize_image_for_thumbnail
resize_image_for_thumbnail(img, target_width, target_height) ==
    IF img.width * target_height > target_width * img.height
    THEN LET new_width == IntOfProduct(target_height, img.width, img.height)
             r == resize(img, new_width, target_height)
             left == (new_width - target_width) \div 2
         IN  IF ~r.ok THEN r
             ELSE crop(r.img, left, 0, left + target_width, target_height)
    ELSE LET new_height == IntOfQuotient(target_width, img.width, img.height)
             r == resize(img, target_width, new_height)
             top == (new_height - target_height) \div 2
         IN  IF ~r.ok THEN r
             ELSE crop(r.img, 0, top, target_width, top + target_height)

\* InteractivePostCreator.resize_image
resize_image(img, target_width, target_height) ==
    IF img.width * target_height > target_width * img.height
    THEN LET new_width == IntOfProduct(target_height, img.width, img.height)
             r == resize(img, new_width, target_height)
             left == (new_width - target_width) \div 2
         IN  IF ~r.ok THEN r
             ELSE crop(r.img, left, 0, left + target_width, target_height)
    ELSE LET new_height == IntOfQuotient(target_width, img.width, img.height)
             r == resize(img, target_width, new_height)
             top == (new_height - target_height) \div 2
         IN  IF ~r.ok THEN r
             ELSE crop(r.img, 0, top, target_width, top + target_height)

(***************************************************************************)
(* Inputs.                                                                 *)
(***************************************************************************)
Around(c) == (c - DimSlack)..(c + DimSlack)

\* pixel sizes: the degenerate size 1, the sizes around the inline cap and
\* around the thumbnail box, and a pair (1062, 531) whose scaled height is
\* a whole number
Dims == {1, 531, 1062} \cup Around(thumbnail_height) \cup Around(max_width)
            \cup Around(thumbnail_width)

\* EXIF orientation of a source: -1 damaged EXIF, 0 none, else the tag
Orientations == {-1, 0, 1, 3, 5, 6, 8}

Source(path, format, mode, w, h, o) ==
    [path |-> path, exists |-> TRUE, decodable |-> TRUE, format |-> format,
     mode |-> mode, width |-> w, height |-> h, orientation |-> o]

ResizeSources ==
    {Source("a.jpg", "JPEG", "RGB", w, h, o) :
        w \in Dims, h \in Dims, o \in Orientations}
    \cup {Source("b.png", "PNG", "RGBA", w, h, 6) : w \in Dims, h \in Dims}

Decoded(src) ==
    [width |-> src.width, height |-> src.height, mode |-> src.mode,
     format |-> src.format, orientation |-> src.orientation, turn |-> 0]

NoCall == [op |-> "none"]
NoReport == [written |-> FALSE]
NoEnv == [OPENAI_API_KEY |-> "absent", UNSPLASH_ACCESS_KEY |-> "absent"]
NoRun == [script |-> "none", pc |-> "none"]

InitImage(sources) ==
    /\ source \in sources
    /\ posts = <<>>
    /\ assets = <<>>
    /\ clock = 0
    /\ call = NoCall
    /\ analyses = <<>>
    /\ report = NoReport
    /\ phase = "idle"
    /\ env = NoEnv
    /\ run = NoRun
    /\ trace = <<>>

(***************************************************************************)
(* Actions of the image pipeline.                                          *)
(***************************************************************************)
\* one call optimizer.optimize_image(source_path, target_filename, is_thumbnail)
OptimizeImage(names) ==
    \E target_filename \in names,
       is_thumbnail \in BOOLEAN, removes_created \in BOOLEAN :
        LET r == optimize_image(assets, clock, source, target_filename,
                                is_thumbnail, removes_created)
        IN  /\ assets' = r.fs
            /\ call' = [op |-> "optimize_image", src |-> source,
                        target_filename |-> target_filename,
                        is_thumbnail |-> is_thumbnail, result |-> r]
            /\ UNCHANGED <<env, run, trace, posts, source, clock, analyses, report, phase>>

\* AutoPostCreator.download_and_optimize_image, thumbnail branch: the resize
ResizeImageForThumbnail ==
    /\ call' = [op |-> "resize_image_for_thumbnail", src |-> source,
                result |-> resize_image_for_thumbnail(
                    Decoded(source), thumbnail_width, thumbnail_height)]
    /\ UNCHANGED <<env, run, trace, posts, source, assets, clock, analyses, report, phase>>

\* InteractivePostCreator.download_and_optimize_image, thumbnail branch
ResizeImage ==
    /\ call' = [op |-> "resize_image", src |-> source,
                result |-> resize_image(
                    Decoded(source), thumbnail_width, thumbnail_height)]
    /\ UNCHANGED <<env, run, trace, posts, source, assets, clock, analyses, report, phase>>

OptimizeResize == OptimizeImage({NoName})

InitResize == InitImage(ResizeSources)

NextResize == OptimizeResize \/ ResizeImageForThumbnail \/ ResizeImage

SpecResize == InitResize /\ [][NextResize]_vars

(***************************************************************************)
(* Claims about the resize step.                                           *)
(***************************************************************************)
IsOptimize == call.op = "optimize_image"
Returned == IsOptimize /\ call.result.raised = "none"
ThumbnailBox == <<thumbnail_width, thumbnail_height>>
\* the code rotates by a quarter turn: a JPEG tagged with orientation 6 or 8
QuarterTurned(src) == src.format = "JPEG" /\ src.orientation \in {6, 8}

\* C1: for every source size (wider, taller or smaller than the box, in the
\* relatively-wider and in the relatively-taller-or-equal branch) the
\* thumbnail resize returns an image of exactly 1200 x 630, through
\* optimize_image(is_thumbnail=True) and through the two creators' helpers.
C1_ThumbnailExactBox ==
    /\ (IsOptimize /\ call.is_thumbnail) =>
          /\ call.result.raised = "none"
          /\ call.result.info.optimized_dimensions = ThumbnailBox
    /\ call.op \in {"resize_image_for_thumbnail", "resize_image"} =>
          /\ call.result.ok
          /\ <<call.result.img.width, call.result.img.height>> = ThumbnailBox

\* a source smaller than the box in both directions, and relatively wider
\* than it, came out as 1200 x 630
C1_Witness ==
    /\ Returned /\ call.is_thumbnail
    /\ call.src.width < thumbnail_width /\ call.src.height < thumbnail_height
    /\ call.src.width * thumbnail_height > thumbnail_width * call.src.height
    /\ call.result.info.optimized_dimensions = ThumbnailBox

C3_InlineWidthCap ==
    (IsOptimize /\ ~call.is_thumbnail /\ call.src.width > max_width) =>
        /\ call.result.raised = "none"
        /\ LET w == call.src.width
               h == call.src.height
               out == call.result.info.optimized_dimensions
           IN  /\ out[1] = max_width
               /\ out[2] * w - h * max_width < w
               /\ h * max_width - out[2] * w < w

(***************************************************************************)
(* The optimizer on files of every kind: missing, undecodable, and the     *)
(* format / colour mode combinations the save step distinguishes.          *)
(***************************************************************************)
Missing(path) == [Source(path, "", "", 1, 1, 0) EXCEPT !.exists = FALSE]
Undecodable(path) == [Source(path, "", "", 1, 1, 0) EXCEPT !.decodable = FALSE]

FileSources ==
    {Source("photo.jpg", "JPEG", "RGB", 800, 600, 6),
     Source("logo.png", "PNG", "RGBA", 800, 600, 0),
     Source("icon.png", "PNG", "P", 800, 600, 0),
     Source("scan.png", "PNG", "LA", 800, 600, 0),
     Missing("gone.jpg"), Undecodable("notes.txt")}

\* target_filename: omitted, or the name save_post passes for a thumbnail
FileNames == {NoName, [prefix |-> "post", ts |-> -1, tag |-> "thumb", ext |-> "jpg"]}

\* the caller moves on to another file (batch_optimize, optimize_directory)
ChooseSource ==
    /\ source' \in FileSources \ {source}
    /\ UNCHANGED <<env, run, trace, posts, assets, clock, call, analyses, report, phase>>

OptimizeFile == OptimizeImage(FileNames)

InitFiles == InitImage(FileSources)

NextFiles == ChooseSource \/ OptimizeFile

SpecFiles == InitFiles /\ [][NextFiles]_vars

\* C10: when optimize_image fails during decoding, conversion or encoding,
\* the exception reaches the caller and the call leaves no truncated or
\* corrupt file at the save path.
C10_NoPartialOutput ==
    (IsOptimize /\ call.result.raised # "none") =>
        \A name \in DOMAIN assets : assets[name].state = "complete"

\* C11: optimize_image called on a source path that does not exist raises
\* FileNotFoundError (the error of the existence test, not one of opening or
\* decoding), returns no save path, and leaves the assets directory exactly
\* as it was before the call.
C11_MissingSourceRaises ==
    [][(call'.op = "optimize_image" /\ ~call'.src.exists) =>
          /\ call'.result.raised = "FileNotFoundError"
          /\ "save_path" \notin DOMAIN call'.result
          /\ assets' = assets]_vars

\* the call on the missing file gone.jpg raised while the directory held
\* files written by earlier calls
C11_Witness ==
    /\ IsOptimize /\ ~call.src.exists /\ call.src.path = "gone.jpg"
    /\ call.result.raised = "FileNotFoundError"
    /\ \E name \in DOMAIN assets : assets[name].state = "complete"

(***************************************************************************)
(* SEOAnalyzer (scripts/seo_analyzer.py).                                  *)
(*                                                                         *)
(* A document is what the analyzers read of it:                            *)
(*   title        [length, power_word, digit]: len(title), whether one of  *)
(*                the power words occurs in it, whether \d+ matches        *)
(*   description  len(description); 0 when the key is missing or empty     *)
(*   length       len(content)                                             *)
(*   items        how many times each kind of Markdown construct occurs    *)
(*   keyword      [length, count]: len(categories[0]) and the number of    *)
(*                its occurrences in the body; length 0: no categories     *)
(*   image        "none", "plain" (image without image_alt) or "with_alt"  *)
(* An issue is <<text>> or <<text, number>>, the number being the value    *)
(* the message is formatted with.                                          *)
(***************************************************************************)
min_word_count == 1000
max_word_count == 3000
ideal_title_length == <<25, 35>>
ideal_meta_desc_length == <<120, 155>>

ItemKinds == {"h2", "h3", "link_root", "link_ext",
              "img_alt_root", "img_alt_ext", "img_noalt_root", "img_noalt_ext"}

RECURSIVE SumOver(_, _)
SumOver(f, S) ==
    IF S = {} THEN 0
    ELSE LET x == CHOOSE y \in S : TRUE IN f[x] + SumOver(f, S \ {x})

RECURSIVE SeqSum(_)
SeqSum(q) == IF q = <<>> THEN 0 ELSE Head(q) + SeqSum(Tail(q))

\* len(re.findall(pattern, content)): the constructs the pattern matches
CountMatches(content, kinds) == SumOver(content.items, kinds)

\* r'^##' without the \s: also a line starting with '###'
H2Pattern_prefix == {"h2", "h3"}
\* r'^##\s' (MULTILINE): a line starting with exactly two '#'
H2Pattern == {"h2"}
\* r'^###\s' (MULTILINE)
H3Pattern == {"h3"}
\* r'!\[(.*?)\]\((.*?)\)'
ImagePattern == {"img_alt_root", "img_alt_ext", "img_noalt_root", "img_noalt_ext"}
EmptyAltImages == {"img_noalt_root", "img_noalt_ext"}
\* r'\[([^\]]+)\]\((/[^)]+)\)': a non-empty bracket text followed by a target
\* starting with '/'; the pattern is not anchored, so it also matches inside
\* an image with alt text and a root-relative path
InternalLinkPattern == {"link_root", "img_alt_root"}

\* a title without a power word losing 5 points
analyze_title_penalty(title) ==
    IF title.length = 0 THEN [score |-> 0, issues |-> << <<"title_missing">> >>]
    ELSE
    LET short == title.length < ideal_title_length[1]
        long == ~short /\ title.length > ideal_title_length[2]
    IN  [score |-> 20 - (IF short \/ long THEN 5 ELSE 0)
                      + (IF title.power_word THEN 5 ELSE -5)
                      + (IF title.digit THEN 5 ELSE 0),
         issues |->
            (IF short THEN << <<"title_short", title.length>> >>
             ELSE IF long THEN << <<"title_long", title.length>> >>
             ELSE <<>>)
            \o (IF title.power_word THEN <<>> ELSE << <<"no_power_word">> >>)
            \o (IF title.digit THEN <<>> ELSE << <<"no_digit">> >>)]

\* SEOAnalyzer.analyze_title
analyze_title(title) ==
    IF title.length = 0 THEN [score |-> 0, issues |-> << <<"title_missing">> >>]
    ELSE
    LET short == title.length < ideal_title_length[1]
        long == ~short /\ title.length > ideal_title_length[2]
    IN  [score |-> 20 - (IF short \/ long THEN 5 ELSE 0)
                      + (IF title.power_word THEN 5 ELSE 0)
                      + (IF title.digit THEN 5 ELSE 0),
         issues |->
            (IF short THEN << <<"title_short", title.length>> >>
             ELSE IF long THEN << <<"title_long", title.length>> >>
             ELSE <<>>)
            \o (IF title.power_word THEN <<>> ELSE << <<"no_power_word">> >>)
            \o (IF title.digit THEN <<>> ELSE << <<"no_digit">> >>)]

\* the lower length bound taken as exclusive
analyze_meta_description_exclusive(description) ==
    IF description = 0 THEN [score |-> 0, issues |-> << <<"meta_missing">> >>]
    ELSE IF description <= ideal_meta_desc_length[1]
    THEN [score |-> 15 - 5, issues |-> << <<"meta_short", description>> >>]
    ELSE IF description > ideal_meta_desc_length[2]
    THEN [score |-> 15 - 5, issues |-> << <<"meta_long", description>> >>]
    ELSE [score |-> 15, issues |-> <<>>]

\* SEOAnalyzer.analyze_meta_description
analyze_meta_description(description) ==
    IF description = 0 THEN [score |-> 0, issues |-> << <<"meta_missing">> >>]
    ELSE IF description < ideal_meta_desc_length[1]
    THEN [score |-> 15 - 5, issues |-> << <<"meta_short", description>> >>]
    ELSE IF description > ideal_meta_desc_length[2]
    THEN [score |-> 15 - 5, issues |-> << <<"meta_long", description>> >>]
    ELSE [score |-> 15, issues |-> <<>>]

\* the two density thresholds taken as inclusive
analyze_content_inclusive(content) ==
    LET word_count == content.length
        h2_count == CountMatches(content, H2Pattern)
        h3_count == CountMatches(content, H3Pattern)
        short == word_count < min_word_count
        long == ~short /\ word_count > max_word_count
        few_h2 == h2_count < 3
        no_h3 == h2_count > 0 /\ h3_count = 0
        has_keyword == content.keyword.length > 0
        occupied == content.keyword.count * content.keyword.length
        low == has_keyword /\ 200 * occupied <= word_count
        high == has_keyword /\ ~low /\ 100 * occupied >= 3 * word_count
    IN  IF has_keyword /\ word_count = 0
        THEN [raised |-> "ZeroDivisionError"]
        ELSE [raised |-> "none",
              score |-> 30 - (IF short THEN 10 ELSE IF long THEN 5 ELSE 0)
                           - (IF few_h2 THEN 5 ELSE 0)
                           - (IF no_h3 THEN 3 ELSE 0)
                           - (IF low \/ high THEN 5 ELSE 0),
              issues |->
                 (IF short THEN << <<"content_short", word_count>> >>
                  ELSE IF long THEN << <<"content_long", word_count>> >>
                  ELSE <<>>)
                 \o (IF few_h2 THEN << <<"few_h2", h2_count>> >> ELSE <<>>)
                 \o (IF no_h3 THEN << <<"no_h3">> >> ELSE <<>>)
                 \o (IF low THEN << <<"keyword_low">> >>
                     ELSE IF high THEN << <<"keyword_high">> >>
                     ELSE <<>>)]

\* SEOAnalyzer.analyze_content.  keyword_density = count * len / length * 100
\* is a float; it is below 0.5 exactly when 200 * count * len < length and
\* above 3 exactly when 100 * count * len > 3 * length.
analyze_content(content) ==
    LET word_count == content.length
        h2_count == CountMatches(content, H2Pattern)
        h3_count == CountMatches(content, H3Pattern)
        short == word_count < min_word_count
        long == ~short /\ word_count > max_word_count
        few_h2 == h2_count < 3
        no_h3 == h2_count > 0 /\ h3_count = 0
        has_keyword == content.keyword.length > 0
        occupied == content.keyword.count * content.keyword.length
        low == has_keyword /\ 200 * occupied < word_count
        high == has_keyword /\ ~low /\ 100 * occupied > 3 * word_count
    IN  IF has_keyword /\ word_count = 0
        THEN [raised |-> "ZeroDivisionError"]
        ELSE [raised |-> "none",
              score |-> 30 - (IF short THEN 10 ELSE IF long THEN 5 ELSE 0)
                           - (IF few_h2 THEN 5 ELSE 0)
                           - (IF no_h3 THEN 3 ELSE 0)
                           - (IF low \/ high THEN 5 ELSE 0),
              issues |->
                 (IF short THEN << <<"content_short", word_count>> >>
                  ELSE IF long THEN << <<"content_long", word_count>> >>
                  ELSE <<>>)
                 \o (IF few_h2 THEN << <<"few_h2", h2_count>> >> ELSE <<>>)
                 \o (IF no_h3 THEN << <<"no_h3">> >> ELSE <<>>)
                 \o (IF low THEN << <<"keyword_low">> >>
                     ELSE IF high THEN << <<"keyword_high">> >>
                     ELSE <<>>)]

\* the loop over the inline images without its break: one issue for every
\* image with empty alt text
analyze_images_each(content) ==
    LET images == CountMatches(content, ImagePattern)
    IN  [score |-> 15 - (IF content.image = "none" THEN 10
                         ELSE IF content.image = "plain" THEN 5 ELSE 0)
                      - (IF images = 0 THEN 5 ELSE 0),
         issues |->
            (IF content.image = "none" THEN << <<"no_cover_image">> >>
             ELSE IF content.image = "plain" THEN << <<"cover_no_alt">> >>
             ELSE <<>>)
            \o (IF images = 0 THEN << <<"no_inline_image">> >>
                ELSE [k \in 1..CountMatches(content, EmptyAltImages) |->
                         <<"empty_alt">>])]

\* SEOAnalyzer.analyze_images
analyze_images(content) ==
    LET images == CountMatches(content, ImagePattern)
    IN  [score |-> 15 - (IF content.image = "none" THEN 10
                         ELSE IF content.image = "plain" THEN 5 ELSE 0)
                      - (IF images = 0 THEN 5 ELSE 0),
         issues |->
            (IF content.image = "none" THEN << <<"no_cover_image">> >>
             ELSE IF content.image = "plain" THEN << <<"cover_no_alt">> >>
             ELSE <<>>)
            \o (IF images = 0 THEN << <<"no_inline_image">> >>
                ELSE IF CountMatches(content, EmptyAltImages) > 0
                     THEN << <<"empty_alt">> >>
                     ELSE <<>>)]

\* a body without internal links losing the whole link budget
analyze_internal_links_zero(content) ==
    LET internal_links == CountMatches(content, InternalLinkPattern)
    IN  IF internal_links = 0
        THEN [score |-> 20 - 20, issues |-> << <<"no_internal_links">> >>]
        ELSE IF internal_links < 3
        THEN [score |-> 20 - 5,
              issues |-> << <<"few_internal_links", internal_links>> >>]
        ELSE [score |-> 20, issues |-> <<>>]

\* three links still counted as too few
analyze_internal_links_offbyone(content) ==
    LET internal_links == CountMatches(content, InternalLinkPattern)
    IN  IF internal_links = 0
        THEN [score |-> 20 - 10, issues |-> << <<"no_internal_links">> >>]
        ELSE IF internal_links <= 3
        THEN [score |-> 20 - 5,
              issues |-> << <<"few_internal_links", internal_links>> >>]
        ELSE [score |-> 20, issues |-> <<>>]

\* SEOAnalyzer.analyze_internal_links
analyze_internal_links(content) ==
    LET internal_links == CountMatches(content, InternalLinkPattern)
    IN  IF internal_links = 0
        THEN [score |-> 20 - 10, issues |-> << <<"no_internal_links">> >>]
        ELSE IF internal_links < 3
        THEN [score |-> 20 - 5,
              issues |-> << <<"few_internal_links", internal_links>> >>]
        ELSE [score |-> 20, issues |-> <<>>]

\* the phrases generate_suggestions looks for, in the order it tests them,
\* and, per issue text, the phrases that occur in it
SuggestionTable == <<"title_too_short", "power_word", "meta_description",
                     "internal_link", "h2_heading", "image">>

Mentions(issue) ==
    CASE issue[1] = "title_short" -> {"title_too_short"}
      [] issue[1] = "no_power_word" -> {"power_word"}
      [] issue[1] \in {"meta_missing", "meta_short", "meta_long"}
            -> {"meta_description"}
      [] issue[1] \in {"no_internal_links", "few_internal_links"}
            -> {"internal_link"}
      [] issue[1] = "few_h2" -> {"h2_heading"}
      [] issue[1] \in {"no_cover_image", "cover_no_alt", "no_inline_image",
                       "empty_alt"} -> {"image"}
      [] OTHER -> {}

\* the if / elif chain of generate_suggestions for one issue
SuggestionFor(issue) ==
    LET hits == {i \in DOMAIN SuggestionTable :
                    SuggestionTable[i] \in Mentions(issue)}
    IN  IF hits = {} THEN <<>>
        ELSE << SuggestionTable[CHOOSE i \in hits : \A j \in hits : i <= j] >>

\* suggestions collected without repetition
RECURSIVE generate_suggestions_unique(_)
generate_suggestions_unique(issues) ==
    IF issues = <<>> THEN <<>>
    ELSE LET rest == generate_suggestions_unique(Tail(issues))
             first == SuggestionFor(Head(issues))
         IN  first \o SelectSeq(rest, LAMBDA x : <<x>> # first)

\* SEOAnalyzer.generate_suggestions
RECURSIVE generate_suggestions(_)
generate_suggestions(issues) ==
    IF issues = <<>> THEN <<>>
    ELSE SuggestionFor(Head(issues)) \o generate_suggestions(Tail(issues))

Min(a, b) == IF a < b THEN a ELSE b
Max(a, b) == IF a > b THEN a ELSE b

\* analyze_post without the final min / max
analyze_post_unclamped(filepath, post) ==
    LET t == analyze_title(post.title)
        m == analyze_meta_description(post.description)
        c == analyze_content(post)
        i == analyze_images(post)
        l == analyze_internal_links(post)
    IN  IF c.raised # "none" THEN [raised |-> c.raised]
        ELSE
        LET total == t.score + m.score + c.score + i.score + l.score
            issues == t.issues \o m.issues \o c.issues \o i.issues \o l.issues
        IN  [raised |-> "none",
             title_score |-> t.score, meta_score |-> m.score,
             content_score |-> c.score, image_score |-> i.score,
             link_score |-> l.score, total |-> total,
             title_issues |-> t.issues, meta_issues |-> m.issues,
             content_issues |-> c.issues, image_issues |-> i.issues,
             link_issues |-> l.issues,
             analysis |-> [file |-> filepath, title |-> post.title,
                           score |-> total,
                           issues |-> issues,
                           suggestions |-> generate_suggestions(issues)]]

\* analyze_post with an issue list that lives on the analyzer and is never
\* reset: every analysis starts from the issues of the one before
analyze_post_shared_issues(filepath, post) ==
    LET t == analyze_title(post.title)
        m == analyze_meta_description(post.description)
        c == analyze_content(post)
        i == analyze_images(post)
        l == analyze_internal_links(post)
    IN  IF c.raised # "none" THEN [raised |-> c.raised]
        ELSE
        LET total == t.score + m.score + c.score + i.score + l.score
            carried == IF analyses = <<>> THEN <<>>
                       ELSE analyses[Len(analyses)].issues
            issues == carried \o t.issues \o m.issues \o c.issues
                          \o i.issues \o l.issues
        IN  [raised |-> "none",
             title_score |-> t.score, meta_score |-> m.score,
             content_score |-> c.score, image_score |-> i.score,
             link_score |-> l.score, total |-> total,
             title_issues |-> t.issues, meta_issues |-> m.issues,
             content_issues |-> c.issues, image_issues |-> i.issues,
             link_issues |-> l.issues,
             analysis |-> [file |-> filepath, title |-> post.title,
                           score |-> Min(100, Max(0, total)),
                           issues |-> issues,
                           suggestions |-> generate_suggestions(issues)]]

\* SEOAnalyzer.analyze_post for the document stored in file filepath
analyze_post(filepath, post) ==
    LET t == analyze_title(post.title)
        m == analyze_meta_description(post.description)
        c == analyze_content(post)
        i == analyze_images(post)
        l == analyze_internal_links(post)
    IN  IF c.raised # "none" THEN [raised |-> c.raised]
        ELSE
        LET total == t.score + m.score + c.score + i.score + l.score
            issues == t.issues \o m.issues \o c.issues \o i.issues \o l.issues
        IN  [raised |-> "none",
             title_score |-> t.score, meta_score |-> m.score,
             content_score |-> c.score, image_score |-> i.score,
             link_score |-> l.score, total |-> total,
             title_issues |-> t.issues, meta_issues |-> m.issues,
             content_issues |-> c.issues, image_issues |-> i.issues,
             link_issues |-> l.issues,
             analysis |-> [file |-> filepath, title |-> post.title,
                           score |-> Min(100, Max(0, total)),
                           issues |-> issues,
                           suggestions |-> generate_suggestions(issues)]]

\* a sort that puts a record in front of the records of equal score
RECURSIVE InsertByScore_unstable(_, _)
InsertByScore_unstable(a, sorted) ==
    IF sorted = <<>> THEN <<a>>
    ELSE IF Head(sorted).score < a.score
         THEN <<Head(sorted)>> \o InsertByScore_unstable(a, Tail(sorted))
         ELSE <<a>> \o sorted

\* sorted(analyses, key=lambda x: x['score']): a stable sort, built by
\* inserting each record behind the records whose score is not larger
RECURSIVE InsertByScore(_, _)
InsertByScore(a, sorted) ==
    IF sorted = <<>> THEN <<a>>
    ELSE IF Head(sorted).score <= a.score
         THEN <<Head(sorted)>> \o InsertByScore(a, Tail(sorted))
         ELSE <<a>> \o sorted

RECURSIVE SortedByScore(_)
SortedByScore(list) ==
    IF list = <<>> THEN <<>>
    ELSE InsertByScore(list[Len(list)], SortedByScore(SubSeq(list, 1, Len(list) - 1)))

\* the mean cut off after one decimal instead of rounded
FormatTenths_truncated(total, n) == (10 * total) \div n

\* f"{total / n:.1f}" in tenths: the quotient rounded to one decimal, a tie
\* going to the even digit.  (A tie is a mean ending in .x5; for n < 20 it
\* ends in .25 or .75, which a double holds exactly.)
FormatTenths(total, n) ==
    LET q == (10 * total) \div n
        r == (10 * total) % n
    IN  IF 2 * r < n THEN q
        ELSE IF 2 * r > n THEN q + 1
        ELSE IF q % 2 = 0 THEN q ELSE q + 1

\* SEOAnalyzer.generate_report: the summary and one record per analysis
generate_report(list) ==
    LET total_score == SeqSum([k \in DOMAIN list |-> list[k].score])
    IN  [written |-> TRUE,
         count |-> Len(list),
         avg_score |-> IF list # <<>> THEN FormatTenths(total_score, Len(list))
                       ELSE 0,
         records |-> SortedByScore(list)]

(***************************************************************************)
(* Documents.                                                              *)
(***************************************************************************)
NoItems == [k \in ItemKinds |-> 0]

Title(n, power_word, digit) ==
    [length |-> n, power_word |-> power_word, digit |-> digit]
NoTitle == Title(0, FALSE, FALSE)
Keyword(n, count) == [length |-> n, count |-> count]
NoCategories == Keyword(0, 0)

Doc(title, description, length, items, keyword, image) ==
    [title |-> title, description |-> description, length |-> length,
     items |-> items, keyword |-> keyword, image |-> image]

\* h2 and h3 headings, root-relative links and one inline image of a kind
Items(h2, h3, links, inline) ==
    [k \in ItemKinds |->
        IF k = "h2" THEN h2 ELSE IF k = "h3" THEN h3
        ELSE IF k = "link_root" THEN links
        ELSE IF k = inline THEN 1 ELSE 0]

\* inputs of the score: every category at its best, at its worst and in
\* between
ScoreTitles ==
    {NoTitle} \cup {Title(n, p, d) :
                       n \in {ideal_title_length[1] - LenSlack,
                              ideal_title_length[1], 30, ideal_title_length[2],
                              ideal_title_length[2] + LenSlack},
                       p \in BOOLEAN, d \in BOOLEAN}
ScoreDescriptions == {0, ideal_meta_desc_length[1] - LenSlack, 140}
ScoreLengths == {min_word_count - LenSlack, 1500, max_word_count + LenSlack}
ScoreItems ==
    {Items(h2, h3, links, inline) :
        h2 \in {0, 2, 4}, h3 \in {0, 2}, links \in {0, 2, 3},
        inline \in {"none", "img_alt_ext", "img_noalt_ext"}}
ScoreKeywords == {NoCategories, Keyword(5, 0), Keyword(5, 4)}
CoverImages == {"none", "plain", "with_alt"}

ScoreDocs ==
    {Doc(t, d, n, it, kw, im) :
        t \in ScoreTitles, d \in ScoreDescriptions, n \in ScoreLengths,
        it \in ScoreItems, kw \in ScoreKeywords, im \in CoverImages}
    \cup {Doc(t, d, 0, NoItems, kw, "none") :
        t \in ScoreTitles, d \in ScoreDescriptions,
        kw \in {NoCategories, Keyword(5, 0)}}

(***************************************************************************)
(* main() of seo_analyzer.py: walk _posts, walk _drafts, write the report. *)
(* An exception of analyze_post is not caught and ends the run.            *)
(***************************************************************************)
File(dir, n) == [dir |-> dir, n |-> n]
Analysed == {analyses[k].file : k \in DOMAIN analyses}
Pending(dir) == {f \in DOMAIN posts : f.dir = dir} \ Analysed
NoSource == Missing("")

InitMain(files, docs) ==
    /\ posts \in UNION {[present -> docs] : present \in SUBSET files}
    /\ source = NoSource
    /\ assets = <<>>
    /\ clock = 0
    /\ call = NoCall
    /\ analyses = <<>>
    /\ report = NoReport
    /\ phase = "_posts"
    /\ env = NoEnv
    /\ run = NoRun
    /\ trace = <<>>

\* analysis = analyzer.analyze_post(filepath); analyses.append(analysis)
AnalyzePost ==
    /\ phase \in {"_posts", "_drafts"}
    /\ \E filepath \in Pending(phase) :
          LET r == analyze_post(filepath, posts[filepath])
          IN  /\ call' = [op |-> "analyze_post", filepath |-> filepath,
                          post |-> posts[filepath], result |-> r]
              /\ IF r.raised = "none"
                 THEN analyses' = Append(analyses, r.analysis)
                      /\ phase' = phase
                 ELSE analyses' = analyses /\ phase' = "crashed"
    /\ UNCHANGED <<env, run, trace, posts, source, assets, clock, report>>

\* the walk of _posts is over, the walk of _drafts starts
WalkDrafts ==
    /\ phase = "_posts" /\ Pending("_posts") = {}
    /\ phase' = "_drafts"
    /\ UNCHANGED <<env, run, trace, posts, source, assets, clock, call, analyses, report>>

\* report = analyzer.generate_report(analyses), written to seo_report.md
WriteReport ==
    /\ phase = "_drafts" /\ Pending("_drafts") = {}
    /\ report' = generate_report(analyses)
    /\ phase' = "done"
    /\ UNCHANGED <<env, run, trace, posts, source, assets, clock, call, analyses>>

NextMain == AnalyzePost \/ WalkDrafts \/ WriteReport

\* one document, of every shape
InitScore == InitMain({File("_posts", 1)}, ScoreDocs)
SpecScore == InitScore /\ [][NextMain]_vars

(***************************************************************************)
(* Claims about the score of one document.                                 *)
(***************************************************************************)
IsAnalyze == call.op = "analyze_post"
Analyzed == IsAnalyze /\ call.result.raised = "none"

\* C4: every analysis analyze_post returns carries an integer score between
\* 0 and 100, whatever combination of checks fails or succeeds.
C4_ScoreInRange ==
    /\ Analyzed => call.result.analysis.score \in 0..100
    /\ \A k \in DOMAIN analyses : analyses[k].score \in 0..100

\* a document whose category scores add up to more than 100 was analysed
C4_Witness ==
    /\ Analyzed /\ call.result.total > 100
    /\ call.result.analysis.score = 100
    /\ Len(analyses) = 1

\* the document of C5
IsIdeal(post) ==
    /\ post.title = Title(30, TRUE, TRUE)
    /\ post.description = 140
    /\ post.length = 1500
    /\ post.items["h2"] = 4 /\ post.items["h3"] = 2
    /\ post.image = "with_alt"
    /\ post.items["img_alt_root"] + post.items["img_alt_ext"] = 1
    /\ post.items["img_noalt_root"] + post.items["img_noalt_ext"] = 0
    /\ post.items["link_root"] = 3
    /\ \/ post.keyword.length = 0
       \/ LET occupied == post.keyword.count * post.keyword.length
          IN  200 * occupied >= post.length /\ 100 * occupied <= 3 * post.length

\* C5: the document with a 30-character title with power word and digit, a
\* 140-character description, a 1500-character body with 4 H2 and 2 H3
\* headings, a cover image with alt text, one inline image with alt text and
\* 3 root-relative links (no keyword outside the density band) loses no
\* point in any category, has no issue and scores 100.
C5_IdealDocument ==
    (IsAnalyze /\ IsIdeal(call.post)) =>
        /\ call.result.raised = "none"
        /\ call.result.title_score = 30
        /\ call.result.meta_score = 15
        /\ call.result.content_score = 30
        /\ call.result.image_score = 15
        /\ call.result.link_score = 20
        /\ call.result.analysis.issues = <<>>
        /\ call.result.analysis.score = 100

\* the ideal document, with a category keyword inside the band, was analysed
C5_Witness ==
    /\ Analyzed /\ IsIdeal(call.post) /\ call.post.keyword.length > 0
    /\ call.result.analysis.score = 100

(***************************************************************************)
(* The meta description at every length, in documents good and bad.        *)
(***************************************************************************)
MetaDocs ==
    {Doc(t, d, 1500, it, NoCategories, im) :
        t \in {NoTitle, Title(30, TRUE, TRUE)},
        d \in 0..(ideal_meta_desc_length[2] + LenSlack),
        it \in {NoItems, Items(4, 2, 3, "img_alt_ext")},
        im \in {"none", "with_alt"}}

InitMeta == InitMain({File("_posts", 1)}, MetaDocs)
SpecMeta == InitMeta /\ [][NextMain]_vars

\* C6: the meta-description category scores 0, with the single issue "not
\* set", when the description is absent or empty, whatever the other fields
\* are; a description of 120 to 155 characters (bounds included) scores 15,
\* a shorter or longer one 10.
C6_MetaDescription ==
    Analyzed =>
        LET d == call.post.description IN
        /\ d = 0 => /\ call.result.meta_score = 0
                    /\ call.result.meta_issues = << <<"meta_missing">> >>
        /\ (120 <= d /\ d <= 155) => call.result.meta_score = 15
        /\ (d > 0 /\ (d < 120 \/ d > 155)) => call.result.meta_score = 10

\* a description of exactly 120 characters scored 15 in a document that is
\* otherwise empty
C6_Witness ==
    /\ Analyzed /\ call.post.description = 120
    /\ call.post.title = NoTitle /\ call.post.image = "none"
    /\ call.result.meta_score = 15

(***************************************************************************)
(* The batch run over a handful of documents.                              *)
(***************************************************************************)
Doc100 == Doc(Title(30, TRUE, TRUE), 140, 1500,
              Items(4, 2, 3, "img_alt_ext"), NoCategories, "with_alt")
Doc97 == Doc(Title(30, FALSE, FALSE), 140, 1500,
             Items(4, 0, 3, "img_alt_ext"), NoCategories, "with_alt")
Doc80 == Doc(Title(30, FALSE, FALSE), 119, 1500,
             Items(4, 2, 0, "img_alt_ext"), NoCategories, "plain")
Doc60 == Doc(Title(30, FALSE, FALSE), 119, 999,
             Items(2, 2, 0, "img_alt_ext"), NoCategories, "none")
\* an empty body with a category: the density division raises
DocEmptyBody == Doc(NoTitle, 0, 0, NoItems, Keyword(5, 0), "none")

BatchDocs == {Doc100, Doc97, Doc80, Doc60, DocEmptyBody}
BatchFiles == {File("_posts", k) : k \in 1..MaxPosts}
                 \cup {File("_drafts", k) : k \in 1..MaxDrafts}

InitBatch == InitMain(BatchFiles, BatchDocs)
SpecBatch == InitBatch /\ [][NextMain]_vars

Scores == [k \in DOMAIN analyses |-> analyses[k].score]

\* C8 (as claimed): the report gives the mean as the sum of the scores
\* divided by their number, and 0 for an empty list.
C8_MeanExact ==
    report.written =>
        IF analyses = <<>> THEN report.avg_score = 0
        ELSE report.avg_score * Len(analyses) = 10 * SeqSum(Scores)

\* C8 (amended): the report gives the mean rounded to one decimal place: it
\* differs from sum / number by at most 0.05 and equals it whenever the mean
\* has at most one decimal (80.0 for 100, 80, 60); for an empty list the
\* report is written and gives 0.0.
C8_MeanRounded ==
    report.written =>
        LET n == Len(analyses)
            tenfold == 10 * SeqSum(Scores)
        IN  /\ report.count = n
            /\ n = 0 => report.avg_score = 0
            /\ n > 0 => /\ 2 * (report.avg_score * n - tenfold) <= n
                        /\ 2 * (tenfold - report.avg_score * n) <= n
            /\ (n > 0 /\ tenfold % n = 0) => report.avg_score * n = tenfold
            /\ {Scores[k] : k \in DOMAIN Scores} = {100, 80, 60} /\ n = 3
                  => report.avg_score = 800

\* a report over three documents whose mean, 92.33..., has no exact decimal
C8_Witness ==
    /\ report.written /\ Len(analyses) = 3
    /\ SeqSum(Scores) = 277
    /\ report.avg_score = 923

Position(file) == CHOOSE k \in DOMAIN analyses : analyses[k].file = file

\* C9: the report lists exactly one record per analysed document, in
\* ascending order of score; records of equal score keep the order in which
\* they were analysed, so posts come before drafts.
C9_ReportSorted ==
    report.written =>
        LET rec == report.records IN
        /\ Len(rec) = Len(analyses)
        /\ \A k \in DOMAIN analyses : \E l \in DOMAIN rec : rec[l] = analyses[k]
        /\ \A k, l \in DOMAIN rec : k # l => rec[k].file # rec[l].file
        /\ \A k, l \in DOMAIN rec : k < l =>
              /\ rec[k].score <= rec[l].score
              /\ rec[k].score = rec[l].score =>
                    /\ Position(rec[k].file) < Position(rec[l].file)
                    /\ ~(rec[k].file.dir = "_drafts" /\ rec[l].file.dir = "_posts")

\* a report in which a post and a draft of equal score follow a document of
\* lower score that was analysed after the post
C9_Witness ==
    /\ report.written /\ Len(report.records) = 3
    /\ report.records[1].score < report.records[2].score
    /\ report.records[2].score = report.records[3].score
    /\ report.records[2].file.dir = "_posts"
    /\ report.records[3].file.dir = "_drafts"
    /\ Position(report.records[1].file) = 2

(***************************************************************************)
(* The generator scripts as processes: generate_post.py,                   *)
(* create_post_auto.py and create_post_interactive.py from the import of   *)
(* the module to the exit of the interpreter, and one call of              *)
(* ImageOptimizer.batch_optimize.  run holds the position (pc) and the     *)
(* local data of the script, trace the effects of the run in the order in  *)
(* which they happen: requests, questions put to the user, messages,       *)
(* directories made and files written.                                     *)
(***************************************************************************)
\* os.environ.get(NAME): "absent" is None, "empty" is '', "set" any other text
KeyStates == {"absent", "empty", "set"}
\* the truth value of os.environ.get(NAME)
Truthy(value) == value = "set"

Printed(text) == [kind |-> "print", text |-> text]
PrintedCount(text, n) == [kind |-> "print", text |-> text, n |-> n]
LlmRequest == [kind |-> "llm_request"]
SearchRequest == [kind |-> "image_search"]
DownloadRequest == [kind |-> "image_download"]
Prompted(question, answer) ==
    [kind |-> "prompt", question |-> question, answer |-> answer]
MadeDirs(dir) == [kind |-> "makedirs", dir |-> dir]
\* a file under assets/img/posts opened for writing; complete: the write
\* went through
WroteImage(path, complete) ==
    [kind |-> "write", dir |-> "assets", path |-> path, complete |-> complete]
\* a Markdown file under _drafts: the keys of its front matter and the image
\* files its body refers to
WroteDraft(path, front_matter, images) ==
    [kind |-> "write", dir |-> "_drafts", path |-> path,
     front_matter |-> front_matter, images |-> images]
\* the line appended to $GITHUB_OUTPUT (or output.txt)
WroteOutput(files) == [kind |-> "write", dir |-> "output", files |-> files]

\* datetime.now().strftime('%Y-%m-%d') as a day number and
\* datetime.now().strftime('%H%M%S') as the second of the day
SecondsPerDay == 86400
strftime_date(now) == now \div SecondsPerDay
strftime_time(now) == now % SecondsPerDay

\* f"{i:02d}"
TwoDigits(i) == IF i < 10 THEN "0" \o ToString(i) ELSE ToString(i)

\* an image the photo search returned: the picture behind its URL, whether
\* the result carries a description, and the length of the Markdown block
\* (image, description, credit line) a creator inserts for it
ImageInfo(src, described) ==
    [src |-> src, described |-> described, markdown |-> 150]
Photo == Source("images.unsplash.com/photo", "JPEG", "RGB", 1600, 900, 0)

Exit(r, status) == [r EXCEPT !.pc = "exited", !.status = status]

(***************************************************************************)
(* generate_post.py                                                        *)
(***************************************************************************)
ArticleCount == 3          \* main: for i in range(3)

\* a title the LLM returned: words is '-'.join(re.findall(r'[a-zA-Z]+',
\* title)[:3]).lower()[:30], empty for a title without Latin letters
GeneratedTitle(words) == [words |-> words]
LlmTitles == {GeneratedTitle("ai-startup-guide"), GeneratedTitle("")}
\* values of random.randint(1000, 9999)
RandomIds == {1000, 9999}

\* create_filename(title): <date>-<clean title>.md
create_filename(title, now, random_id) ==
    [prefix |-> IF title.words # "" THEN title.words ELSE "article",
     ts |-> strftime_date(now),
     tag |-> IF title.words # "" THEN "" ELSE ToString(random_id),
     ext |-> "md"]

\* download_and_save_image(image_info, filename): every exception is caught
\* and turned into None (NoName)
download_and_save_image(environ, fs, image_info, filename, response_ok) ==
    LET image_filename == [filename EXCEPT !.ext = "jpg"]
        trigger == IF Truthy(environ.UNSPLASH_ACCESS_KEY)
                   THEN <<DownloadRequest>> ELSE <<>>
    IN  IF ~response_ok
        THEN [image_path |-> NoName, fs |-> fs,
              events |-> trigger \o <<DownloadRequest, Printed("image_error")>>]
        ELSE [image_path |-> image_filename,
              fs |-> (image_filename :>
                        [state |-> "complete",
                         encoding |-> image_info.src.format,
                         orientation |-> image_info.src.orientation,
                         turn |-> 0]) @@ fs,
              events |-> trigger \o <<DownloadRequest, MadeDirs("assets"),
                                      WroteImage(image_filename, TRUE),
                                      Printed("image_saved")>>]

BaseKeys == {"layout", "title", "categories", "tags", "author", "date"}

\* save_article: the front matter, the file name and the write
save_article(title, now, image_path, image_info, random_id, write_ok) ==
    LET image_keys ==
            IF image_path = NoName THEN {}
            ELSE {"image"} \cup
                 (IF image_info = <<>> THEN {}
                  ELSE {"image_credit"} \cup
                       (IF image_info[1].described THEN {"image_alt"} ELSE {}))
        filepath == create_filename(title, now, random_id)
    IN  IF ~write_ok THEN [raised |-> "OSError", events |-> <<>>]
        ELSE [raised |-> "none", filepath |-> filepath,
              events |-> <<MadeDirs("_drafts"),
                           WroteDraft(filepath, BaseKeys \cup image_keys, <<>>)>>]

\* what the outside world answers during one article: the LLM requests, the
\* photo search, the download, the two random ids and the write of the file
ArticleOutcomes ==
    [title_ok : BOOLEAN, title : LlmTitles, content_ok : BOOLEAN,
     search : {"error", "empty", "found"}, described : BOOLEAN,
     response_ok : BOOLEAN, random_id : RandomIds, random_id2 : RandomIds,
     write_ok : BOOLEAN]

\* main, body of the loop: try ... except Exception: print, continue
main_article(environ, fs, now, i, o) ==
    LET begin == <<PrintedCount("generating", i + 1), LlmRequest>>
        failed(events) == [saved |-> FALSE, fs |-> fs,
                           events |-> events \o <<Printed("error")>>]
    IN  IF ~o.title_ok THEN failed(begin)
        ELSE IF ~o.content_ok THEN failed(begin \o <<LlmRequest>>)
        ELSE
        LET written == begin \o <<LlmRequest>>
            searching == Truthy(environ.UNSPLASH_ACCESS_KEY)
            \* fetch_unsplash_image: None after an error or an empty result
            image_info == IF searching /\ o.search = "found"
                          THEN <<ImageInfo(Photo, o.described)>> ELSE <<>>
            searched == IF searching
                        THEN <<Printed("searching"), SearchRequest>>
                             \o (IF o.search = "error"
                                 THEN <<Printed("search_error")>> ELSE <<>>)
                        ELSE <<>>
            download ==
                IF image_info = <<>>
                THEN [image_path |-> NoName, fs |-> fs, events |-> <<>>]
                ELSE download_and_save_image(
                         environ, fs, image_info[1],
                         create_filename(o.title, now, o.random_id),
                         o.response_ok)
            save == save_article(o.title, now, download.image_path,
                                 image_info, o.random_id2, o.write_ok)
            events == written \o searched \o download.events \o save.events
        IN  IF save.raised # "none"
            THEN [saved |-> FALSE, fs |-> download.fs,
                  events |-> events \o <<Printed("error")>>]
            ELSE [saved |-> TRUE, fs |-> download.fs,
                  filepath |-> save.filepath,
                  events |-> events \o <<Printed("saved")>>]

GenerateRun == [script |-> "generate_post", pc |-> "import", status |-> -1,
                i |-> 0, generated_files |-> <<>>]

\* the module level of a generator script: load_dotenv() and
\* client = OpenAI(api_key=os.environ.get('OPENAI_API_KEY')).  Whether the
\* constructor rejects a missing key depends on the openai release; when it
\* does, the exception is not caught and the interpreter exits with 1.
ImportModule ==
    /\ run.pc = "import"
    /\ \E rejects_missing_key \in BOOLEAN :
          IF env.OPENAI_API_KEY = "absent" /\ rejects_missing_key
          THEN /\ run' = Exit(run, 1)
               /\ trace' = Append(trace, Printed("traceback"))
          ELSE /\ run' = [run EXCEPT !.pc = "main"]
               /\ trace' = trace
    /\ UNCHANGED <<posts, source, assets, clock, call, analyses, report,
                   phase, env>>

\* a main() that sets the script up before it looks at the key
KeyCheck_late(next, events) ==
    /\ run.pc = "main"
    /\ IF ~Truthy(env.OPENAI_API_KEY)
       THEN /\ run' = Exit(run, 1)
            /\ trace' = trace \o events \o <<Printed("no_api_key")>>
       ELSE /\ run' = [run EXCEPT !.pc = next]
            /\ trace' = trace \o events
    /\ UNCHANGED <<posts, source, assets, clock, call, analyses, report,
                   phase, env>>

\* main(), first statement: without the key, a message and sys.exit(1)
KeyCheck(next, events) ==
    /\ run.pc = "main"
    /\ IF ~Truthy(env.OPENAI_API_KEY)
       THEN /\ run' = Exit(run, 1)
            /\ trace' = Append(trace, Printed("no_api_key"))
       ELSE /\ run' = [run EXCEPT !.pc = next]
            /\ trace' = trace \o events
    /\ UNCHANGED <<posts, source, assets, clock, call, analyses, report,
                   phase, env>>

\* generate_post.main up to the loop
GenerateMain ==
    /\ run.script = "generate_post"
    /\ KeyCheck("loop", <<Printed("start")>>)

\* a loop that gives up after the first article that fails
ArticleDone_abort(r) ==
    /\ run' = [run EXCEPT
                  !.i = IF r.saved THEN @ + 1 ELSE ArticleCount,
                  !.generated_files =
                      IF r.saved THEN Append(@, r.filepath) ELSE @]
    /\ assets' = r.fs
    /\ trace' = trace \o r.events

\* the loop of main with the outcome r of its body: generated_files grows
\* by the file of a saved article
ArticleDone(r) ==
    /\ run' = [run EXCEPT
                  !.i = @ + 1,
                  !.generated_files =
                      IF r.saved THEN Append(@, r.filepath) ELSE @]
    /\ assets' = r.fs
    /\ trace' = trace \o r.events

\* generate_post.main: one round of the loop
GenerateArticle ==
    /\ run.script = "generate_post" /\ run.pc = "loop"
    /\ run.i < ArticleCount
    /\ \E o \in ArticleOutcomes :
          ArticleDone(main_article(env, assets, clock, run.i, o))
    /\ UNCHANGED <<posts, source, clock, call, analyses, report, phase, env>>

\* generate_post.main after the loop: the list of files and the output line
GenerateFinish ==
    /\ run.script = "generate_post" /\ run.pc = "loop"
    /\ run.i = ArticleCount
    /\ run' = Exit(run, 0)
    /\ trace' = trace \o <<Printed("done")>>
                      \o (IF run.generated_files # <<>>
                          THEN <<WroteOutput(run.generated_files)>> ELSE <<>>)
    /\ UNCHANGED <<posts, source, assets, clock, call, analyses, report,
                   phase, env>>

(***************************************************************************)
(* ImageOptimizer.batch_optimize(image_paths, prefix)                      *)
(***************************************************************************)
BatchRun(image_paths, prefix) ==
    [script |-> "batch_optimize", pc |-> "loop", status |-> -1,
     image_paths |-> image_paths, prefix |-> prefix, i |-> 0,
     results |-> <<>>]

\* batch_optimize: filename = f"{prefix}_{timestamp}_{i:02d}.jpg" if prefix
\* else None
batch_filename(prefix, now, i) ==
    IF prefix # ""
    THEN [prefix |-> prefix, ts |-> now, tag |-> TwoDigits(i), ext |-> "jpg"]
    ELSE NoName

\* the file an optimize_image call opened for writing, if it got that far
OptimizeEvents(r) ==
    IF "save_path" \in DOMAIN r
    THEN <<WroteImage(r.save_path, r.raised = "none")>> ELSE <<>>

\* batch_optimize: the entry appended for the outcome r of optimize_image
\* on path
BatchAppend(path, r) ==
    /\ run' = [run EXCEPT
                  !.i = @ + 1,
                  !.results = Append(@,
                      IF r.raised = "none"
                      THEN [success |-> TRUE, path |-> r.info.optimized_path,
                            info |-> r.info]
                      ELSE [success |-> FALSE, error |-> r.raised,
                            original_path |-> path.path])]
    /\ assets' = r.fs
    /\ trace' = trace \o OptimizeEvents(r)

\* one round of the loop of batch_optimize
BatchOptimizeEntry ==
    /\ run.script = "batch_optimize" /\ run.pc = "loop"
    /\ run.i < Len(run.image_paths)
    /\ \E removes_created \in BOOLEAN :
          BatchAppend(run.image_paths[run.i + 1],
                      optimize_image(assets, clock,
                                     run.image_paths[run.i + 1],
                                     batch_filename(run.prefix, clock, run.i),
                                     FALSE, removes_created))
    /\ UNCHANGED <<posts, source, clock, call, analyses, report, phase, env>>

\* return results
BatchOptimizeReturn ==
    /\ run.script = "batch_optimize" /\ run.pc = "loop"
    /\ run.i = Len(run.image_paths)
    /\ run' = [run EXCEPT !.pc = "returned"]
    /\ UNCHANGED <<posts, source, assets, clock, call, analyses, report,
                   phase, env, trace>>

(***************************************************************************)
(* download_and_optimize_image of the two creators: the picture behind     *)
(* image_info['url'] is fetched, resized, converted and saved as JPEG      *)
(* under image_filename; every exception is caught and turned into None    *)
(* (NoName).                                                               *)
(***************************************************************************)
\* the part the two creators share; resized is the outcome of the resize
\* of the downloaded picture
download_and_save(environ, fs, image_info, image_filename, resized, response_ok, removes_created) ==
    LET trigger == IF Truthy(environ.UNSPLASH_ACCESS_KEY)
                   THEN <<DownloadRequest>> ELSE <<>>
        requested == trigger \o <<DownloadRequest>>
        failed(events, files) ==
            [path |-> NoName, fs |-> files,
             events |-> events \o <<Printed("image_error")>>]
    IN  IF ~response_ok \/ ~image_info.src.decodable \/ ~resized.ok
        THEN failed(requested, fs)
        ELSE
        LET img == resized.img
            mode == IF img.mode \in {"RGBA", "P"} THEN "RGB" ELSE img.mode
            saved == image_save(fs, image_filename, img,
                                [encoder |-> "JPEG", mode |-> mode,
                                 exif |-> FALSE],
                                0, removes_created)
        IN  IF saved.raised # "none"
            THEN failed(requested \o <<MadeDirs("assets"),
                                       WroteImage(image_filename, FALSE)>>,
                        saved.fs)
            ELSE [path |-> image_filename, fs |-> saved.fs,
                  events |-> requested \o <<MadeDirs("assets"),
                                            WroteImage(image_filename, TRUE)>>]

\* the width cap of an inline picture: int(img.height * (cap / img.width))
cap_width(img, cap) ==
    IF img.width > cap
    THEN resize(img, cap, IntOfProduct(img.height, cap, img.width))
    ELSE Ok(img)

ThumbName(filename_base) ==
    [prefix |-> filename_base, ts |-> -1, tag |-> "thumb", ext |-> "jpg"]

\* values of random.randint(100, 999)
RandomSuffixes == {100, 999}

\* AutoPostCreator.download_and_optimize_image
auto_download_and_optimize_image(environ, fs, now, image_info, filename_base, is_thumbnail, response_ok, random_suffix, removes_created) ==
    LET img == Decoded(image_info.src)
        resized == IF is_thumbnail
                   THEN resize_image_for_thumbnail(img, 1200, 630)
                   ELSE cap_width(img, 1000)
        image_filename ==
            IF is_thumbnail THEN ThumbName(filename_base)
            ELSE [prefix |-> filename_base, ts |-> strftime_time(now),
                  tag |-> ToString(random_suffix), ext |-> "jpg"]
    IN  download_and_save(environ, fs, image_info, image_filename, resized,
                          response_ok, removes_created)

\* InteractivePostCreator.download_and_optimize_image
interactive_download_and_optimize_image(environ, fs, now, image_info, filename_base, is_thumbnail, response_ok, removes_created) ==
    LET img == Decoded(image_info.src)
        resized == IF is_thumbnail
                   THEN resize_image(img, 1200, 630)
                   ELSE cap_width(img, 1200)
        image_filename ==
            IF is_thumbnail THEN ThumbName(filename_base)
            ELSE [prefix |-> filename_base, ts |-> strftime_time(now),
                  tag |-> "", ext |-> "jpg"]
    IN  download_and_save(environ, fs, image_info, image_filename, resized,
                          response_ok, removes_created)

\* len() of the Markdown block inserted for the images of a list
RECURSIVE MarkdownLength(_)
MarkdownLength(images) ==
    IF images = <<>> THEN 0
    ELSE Head(images).markdown + MarkdownLength(Tail(images))

(***************************************************************************)
(* create_post_auto.py                                                     *)
(***************************************************************************)
\* article_data: the file name base made of the title, len(content) and the
\* number of blocks of the content that start with '##'
AutoArticle(filename_base, length, sections) ==
    [filename_base |-> filename_base, length |-> length,
     sections |-> sections]
NoArticle == AutoArticle("", 0, 0)
AutoArticles == {AutoArticle("my-post", 1500, 3),
                 AutoArticle("my-post", 4600, 4),
                 AutoArticle("my-post", 2500, 1)}

\* fetch_and_select_images: min(3, max(1, content_length // 1500))
num_content_images(article) == Min(3, Max(1, article.length \div 1500))

AutoRun == [script |-> "create_post_auto", pc |-> "import", status |-> -1,
            article |-> NoArticle, thumbnail |-> <<>>,
            content_images |-> <<>>, j |-> 0, front_matter |-> {},
            inserted |-> <<>>]

\* main(): the key check, AutoPostCreator() with its ImageOptimizer (which
\* makes the assets directory), and the header of run()
AutoMain ==
    /\ run.script = "create_post_auto"
    /\ KeyCheck("overview", <<MadeDirs("assets"), Printed("header")>>)

\* get_overview: an empty answer ends the script through sys.exit(1), which
\* the except clauses of run() do not catch
GetOverview ==
    /\ run.script = "create_post_auto" /\ run.pc = "overview"
    /\ \E overview \in {"", "text"} :
          IF overview = ""
          THEN /\ run' = Exit(run, 1)
               /\ trace' = trace \o <<Prompted("overview", overview),
                                      Printed("no_overview")>>
          ELSE /\ run' = [run EXCEPT !.pc = "generate"]
               /\ trace' = Append(trace, Prompted("overview", overview))
    /\ UNCHANGED <<posts, source, assets, clock, call, analyses, report,
                   phase, env>>

\* generate_complete_article: LLM requests for structure, title, categories,
\* the questions of get_additional_info, LLM requests for content, meta
\* description and image keywords.  An exception of a request is caught by
\* run(), which prints it and returns.
GenerateCompleteArticle ==
    /\ run.script = "create_post_auto" /\ run.pc = "generate"
    /\ \E article \in AutoArticles, llm_ok \in BOOLEAN :
          IF ~llm_ok
          THEN /\ run' = Exit(run, 0)
               /\ trace' = trace \o <<LlmRequest, Printed("error")>>
          ELSE /\ run' = [run EXCEPT !.pc = "images", !.article = article]
               /\ trace' = trace \o <<LlmRequest,
                                      Prompted("additional_info", "text"),
                                      LlmRequest>>
    /\ UNCHANGED <<posts, source, assets, clock, call, analyses, report,
                   phase, env>>

\* fetch_and_select_images searching whether or not the photo key is set
FetchAndSelectImages_unguarded ==
    /\ run.script = "create_post_auto" /\ run.pc = "images"
    /\ \E found \in BOOLEAN, k \in 0..num_content_images(run.article) :
          /\ run' = [run EXCEPT
                        !.pc = "save",
                        !.thumbnail = IF found THEN <<ImageInfo(Photo, TRUE)>>
                                      ELSE <<>>,
                        !.content_images =
                            [n \in 1..k |-> ImageInfo(Photo, TRUE)]]
          /\ trace' = trace \o <<Printed("selecting"), SearchRequest>>
                        \o [n \in 1..num_content_images(run.article)
                               |-> SearchRequest]
    /\ UNCHANGED <<posts, source, assets, clock, call, analyses, report,
                   phase, env>>

\* fetch_and_select_images: nothing without the photo key; else one search
\* for the thumbnail and one per content image, each of which may find
\* nothing
FetchAndSelectImages ==
    /\ run.script = "create_post_auto" /\ run.pc = "images"
    /\ IF ~Truthy(env.UNSPLASH_ACCESS_KEY)
       THEN /\ run' = [run EXCEPT !.pc = "save"]
            /\ trace' = Append(trace, Printed("no_unsplash_key"))
       ELSE \E found \in BOOLEAN, k \in 0..num_content_images(run.article) :
               /\ run' = [run EXCEPT
                             !.pc = "save",
                             !.thumbnail = IF found
                                           THEN <<ImageInfo(Photo, TRUE)>>
                                           ELSE <<>>,
                             !.content_images =
                                 [n \in 1..k |-> ImageInfo(Photo, TRUE)]]
               /\ trace' = trace \o <<Printed("selecting"), SearchRequest>>
                             \o [n \in 1..num_content_images(run.article)
                                    |-> SearchRequest]
    /\ UNCHANGED <<posts, source, assets, clock, call, analyses, report,
                   phase, env>>

\* save_complete_article with the outcome d of the thumbnail download: the
\* keys of the front matter
AutoThumbnailSaved(d) ==
    /\ run' = [run EXCEPT
                  !.pc = "insert",
                  !.front_matter =
                      BaseKeys \cup {"description"} \cup
                      (IF d.path # NoName
                       THEN {"image", "image_alt", "image_credit"} ELSE {})]
    /\ trace' = trace \o <<Printed("saving")>> \o d.events
    /\ assets' = d.fs

\* save_complete_article up to the insertion of the images: the front
\* matter and the thumbnail
AutoSaveThumbnail ==
    /\ run.script = "create_post_auto" /\ run.pc = "save"
    /\ IF run.thumbnail = <<>>
       THEN AutoThumbnailSaved([path |-> NoName, events |-> <<>>,
                                fs |-> assets])
       ELSE \E response_ok \in BOOLEAN, removes_created \in BOOLEAN :
               AutoThumbnailSaved(
                   auto_download_and_optimize_image(
                       env, assets, clock, run.thumbnail[1],
                       run.article.filename_base, TRUE, response_ok, 100,
                       removes_created))
    /\ UNCHANGED <<posts, source, clock, call, analyses, report, phase, env>>

\* insert_images_into_content inserts nothing when there is no content
\* image or at most one '##' block
AutoInserts ==
    run.content_images # <<>> /\ run.article.sections > 1

\* insert_images_into_content with the outcome d of a download: the image
\* is inserted unless the download returned None
AutoInserted(d) ==
    /\ run' = [run EXCEPT
                  !.j = @ + 1,
                  !.inserted = IF d.path # NoName THEN Append(@, d.path)
                               ELSE @]
    /\ trace' = trace \o d.events
    /\ assets' = d.fs

\* insert_images_into_content: one round of its loop
AutoInsertImage ==
    /\ run.script = "create_post_auto" /\ run.pc = "insert"
    /\ AutoInserts /\ run.j < Len(run.content_images)
    /\ \E response_ok \in BOOLEAN, random_suffix \in RandomSuffixes,
          removes_created \in BOOLEAN :
          AutoInserted(
              auto_download_and_optimize_image(
                  env, assets, clock, run.content_images[run.j + 1],
                  run.article.filename_base, FALSE, response_ok,
                  random_suffix, removes_created))
    /\ UNCHANGED <<posts, source, clock, call, analyses, report, phase, env>>

\* save_complete_article after the insertion: the additional content for a
\* text under 2000 characters (one more LLM request) and the write of the
\* draft; an exception ends run() with a message
AutoWriteArticle ==
    /\ run.script = "create_post_auto" /\ run.pc = "insert"
    /\ ~AutoInserts \/ run.j = Len(run.content_images)
    /\ \E llm_ok \in BOOLEAN, write_ok \in BOOLEAN :
          LET inserted_images ==
                  [n \in 1..Len(run.inserted) |-> ImageInfo(Photo, TRUE)]
              content_length ==
                  run.article.length + MarkdownLength(inserted_images)
              additional == IF content_length < 2000
                            THEN <<LlmRequest>> ELSE <<>>
              filename == [prefix |-> run.article.filename_base,
                           ts |-> strftime_date(clock), tag |-> "",
                           ext |-> "md"]
          IN  /\ run' = Exit(run, 0)
              /\ trace' = trace \o additional \o
                    (IF (content_length < 2000 /\ ~llm_ok) \/ ~write_ok
                     THEN <<Printed("error")>>
                     ELSE <<MadeDirs("_drafts"),
                            WroteDraft(filename, run.front_matter,
                                       run.inserted),
                            Printed("saved")>>)
    /\ UNCHANGED <<posts, source, assets, clock, call, analyses, report,
                   phase, env>>

(***************************************************************************)
(* create_post_interactive.py.  The title is fixed: filename_base and      *)
(* title_clean are what save_post and insert_images_into_content make of   *)
(* it.  The user does not interrupt the session with Ctrl-C.               *)
(***************************************************************************)
filename_base == "my-post"     \* re.sub(r'[-\s]+', '-', ...)[:30].lower()
title_clean == "my post"       \* re.sub(r'[^\w\s-]', '', title)[:30].lower()
OutlineLength == 2             \* len(post_data['outline'])

\* what the user types for a local image: nothing, the path of a file that
\* does not exist, or the path of a picture
LocalAnswers ==
    {NoSource, Missing("gone.jpg"),
     Source("photo.jpg", "JPEG", "RGB", 800, 600, 6),
     Source("logo.png", "PNG", "RGBA", 800, 600, 0)}
\* what the user types for a search: nothing or a keyword
QueryAnswers == {"", "office"}
\* what the user types for the position of an image
PositionAnswers == {"1", "2", "9", "x"}
\* int(answer): "x" is not a number
ParseInt(answer) ==
    CASE answer = "1" -> 1 [] answer = "2" -> 2 [] answer = "9" -> 9
      [] OTHER -> -1

LocalImage(src) == [type |-> "local", src |-> src, markdown |-> 60]
UnsplashImage == [type |-> "unsplash", src |-> Photo, described |-> TRUE,
                  markdown |-> 150]

InteractiveRun ==
    [script |-> "create_post_interactive", pc |-> "import", status |-> -1,
     length |-> 0, method |-> "", thumbnail |-> <<>>, images |-> <<>>,
     rounds |-> 0, pass |-> 1, j |-> 0, front_matter |-> {},
     inserted |-> <<>>, markup |-> 0]

\* search_and_select_image(query, is_thumbnail): None (<<>>) without the
\* photo key, after an error, for an empty result and when the user cancels
search_and_select_image(environ, is_thumbnail, outcome) ==
    IF ~Truthy(environ.UNSPLASH_ACCESS_KEY)
    THEN [image |-> <<>>, events |-> <<Printed("no_unsplash_key")>>]
    ELSE LET searched == <<Printed("searching"), SearchRequest>> IN
         CASE outcome = "error" ->
                [image |-> <<>>,
                 events |-> searched \o <<Printed("search_error")>>]
           [] outcome = "empty" ->
                [image |-> <<>>,
                 events |-> searched \o <<Printed("no_results")>>]
           [] outcome = "cancel" ->
                [image |-> <<>>,
                 events |-> searched \o <<Prompted("selection", "cancel")>>]
           [] OTHER ->
                [image |-> <<UnsplashImage>>,
                 events |-> searched \o <<Prompted("selection", "1")>>
                               \o (IF is_thumbnail
                                   THEN <<Prompted("alt", "text")>>
                                   ELSE <<>>)]
SearchOutcomes == {"error", "empty", "cancel", "selected"}

\* sorted(images, key=position): a stable sort
RECURSIVE InsertByPosition(_, _)
InsertByPosition(a, sorted) ==
    IF sorted = <<>> THEN <<a>>
    ELSE IF Head(sorted).position <= a.position
         THEN <<Head(sorted)>> \o InsertByPosition(a, Tail(sorted))
         ELSE <<a>> \o sorted

RECURSIVE SortedByPosition(_)
SortedByPosition(list) ==
    IF list = <<>> THEN <<>>
    ELSE InsertByPosition(list[Len(list)],
                          SortedByPosition(SubSeq(list, 1, Len(list) - 1)))

\* main(): the key check, InteractivePostCreator() with its ImageOptimizer
\* (which makes the assets directory), and the header of run()
InteractiveMain ==
    /\ run.script = "create_post_interactive"
    /\ KeyCheck("draft", <<MadeDirs("assets"), Printed("header")>>)

\* get_basic_info, choose_template, write_content: questions, and an LLM
\* request for every section the user leaves to the AI.  An exception is
\* caught by run(), which prints it and returns.
InteractiveDraft ==
    /\ run.script = "create_post_interactive" /\ run.pc = "draft"
    /\ \E length \in {1500, 2500}, use_ai \in BOOLEAN, llm_ok \in BOOLEAN :
          LET asked == <<Prompted("title", "text"),
                         Prompted("section", IF use_ai THEN "ai" ELSE "text")>>
          IN  IF use_ai /\ ~llm_ok
              THEN /\ run' = Exit(run, 0)
                   /\ trace' = trace \o asked
                                  \o <<LlmRequest, Printed("error")>>
              ELSE /\ run' = [run EXCEPT !.pc = "add_images",
                                         !.length = length]
                   /\ trace' = trace \o asked
                                  \o (IF use_ai THEN <<LlmRequest>> ELSE <<>>)
    /\ UNCHANGED <<posts, source, assets, clock, call, analyses, report,
                   phase, env>>

\* add_images: the choice of the method
ChooseMethod ==
    /\ run.script = "create_post_interactive" /\ run.pc = "add_images"
    /\ \E method \in {"unsplash", "local", "skip"} :
          /\ run' = [run EXCEPT
                        !.pc = IF method = "skip" THEN "review"
                               ELSE "add_thumbnail",
                        !.method = method]
          /\ trace' = Append(trace, Prompted("method", method))
    /\ UNCHANGED <<posts, source, assets, clock, call, analyses, report,
                   phase, env>>

\* add_images, "サムネイル画像の設定"
AddThumbnail ==
    /\ run.script = "create_post_interactive" /\ run.pc = "add_thumbnail"
    /\ IF run.method = "unsplash"
       THEN \E query \in QueryAnswers, outcome \in SearchOutcomes :
               LET s == IF query = "" THEN [image |-> <<>>, events |-> <<>>]
                        ELSE search_and_select_image(env, TRUE, outcome)
               IN  /\ run' = [run EXCEPT !.pc = "inline_question",
                                         !.thumbnail = s.image]
                   /\ trace' = trace
                                  \o <<Prompted("thumbnail_query", query)>>
                                  \o s.events
       ELSE \E answer \in LocalAnswers :
               IF answer.path # "" /\ answer.exists
               THEN /\ run' = [run EXCEPT !.pc = "inline_question",
                                  !.thumbnail = <<LocalImage(answer)>>]
                    /\ trace' = trace
                          \o <<Prompted("thumbnail_path", answer.path),
                               Prompted("alt", "text")>>
               ELSE /\ run' = [run EXCEPT !.pc = "inline_question"]
                    /\ trace' = Append(trace,
                          Prompted("thumbnail_path", answer.path))
    /\ UNCHANGED <<posts, source, assets, clock, call, analyses, report,
                   phase, env>>

\* add_images, "本文内に画像を追加しますか？"
AskInline ==
    /\ run.script = "create_post_interactive" /\ run.pc = "inline_question"
    /\ \E answer \in {"y", "n"} :
          /\ run' = [run EXCEPT !.pc = IF answer = "y" THEN "inline"
                                       ELSE "review"]
          /\ trace' = Append(trace, Prompted("add_inline", answer))
    /\ UNCHANGED <<posts, source, assets, clock, call, analyses, report,
                   phase, env>>

\* add_images: the question for the position of an image and what follows
\* from the answer: int() raises on a non-number (caught by run(), which
\* prints it and returns), a position outside the outline drops the image
PlaceImage(image, events, answer) ==
    LET asked == events \o <<Prompted("position", answer)>>
        position == ParseInt(answer) - 1
    IN  IF answer = "x"
        THEN /\ run' = Exit(run, 0)
             /\ trace' = trace \o asked \o <<Printed("error")>>
        ELSE /\ run' = [run EXCEPT
                           !.rounds = @ + 1,
                           !.images =
                               IF 0 <= position /\ position < OutlineLength
                               THEN Append(@, [position |-> position]
                                                 @@ image)
                               ELSE @]
             /\ trace' = trace \o asked

\* add_images: one round of the loop over the inline images.  After
\* MaxRounds rounds the user ends the loop with an empty line.
AddInlineImage ==
    /\ run.script = "create_post_interactive" /\ run.pc = "inline"
    /\ IF run.method = "unsplash"
       THEN \E query \in (IF run.rounds < MaxRounds THEN QueryAnswers
                          ELSE {""}),
               outcome \in SearchOutcomes, position \in PositionAnswers :
               IF query = ""
               THEN /\ run' = [run EXCEPT !.pc = "review"]
                    /\ trace' = Append(trace, Prompted("query", query))
               ELSE LET s == search_and_select_image(env, FALSE, outcome)
                        asked == <<Prompted("query", query)>> \o s.events
                    IN  IF s.image = <<>>
                        THEN /\ run' = [run EXCEPT !.rounds = @ + 1]
                             /\ trace' = trace \o asked
                        ELSE PlaceImage(s.image[1], asked, position)
       ELSE \E answer \in (IF run.rounds < MaxRounds THEN LocalAnswers
                           ELSE {NoSource}),
               position \in PositionAnswers :
               IF answer.path = ""
               THEN /\ run' = [run EXCEPT !.pc = "review"]
                    /\ trace' = Append(trace,
                                       Prompted("image_path", answer.path))
               ELSE IF answer.exists
               THEN PlaceImage(LocalImage(answer),
                               <<Prompted("image_path", answer.path),
                                 Prompted("alt", "text")>>,
                               position)
               ELSE /\ run' = [run EXCEPT !.rounds = @ + 1]
                    /\ trace' = trace
                          \o <<Prompted("image_path", answer.path),
                               Printed("file_not_found")>>
    /\ UNCHANGED <<posts, source, assets, clock, call, analyses, report,
                   phase, env>>

\* review_and_optimize: the proofreading on request, the meta description
\* and the title suggestions (LLM requests) with their questions
Review ==
    /\ run.script = "create_post_interactive" /\ run.pc = "review"
    /\ \E proofread \in {"y", "n"}, llm_ok \in BOOLEAN :
          LET asked == <<Prompted("proofread", proofread), LlmRequest>>
          IN  IF ~llm_ok
              THEN /\ run' = Exit(run, 0)
                   /\ trace' = trace \o asked \o <<Printed("error")>>
              ELSE /\ run' = [run EXCEPT !.pc = "save"]
                   /\ trace' = trace \o asked
                          \o <<Prompted("custom_description", ""),
                               LlmRequest, Prompted("title_choice", "")>>
    /\ UNCHANGED <<posts, source, assets, clock, call, analyses, report,
                   phase, env>>

\* save_post with the outcome o of the thumbnail step (kind "none": no
\* thumbnail; "local": o is what optimize_image did, an exception of which
\* is caught and printed; "unsplash": o is what the download did): the keys
\* of the front matter; the insertion of the images starts
ThumbnailSaved(kind, o) ==
    /\ run' = [run EXCEPT
                  !.pc = "insert", !.j = 0, !.pass = 1, !.inserted = <<>>,
                  !.markup = 0,
                  !.front_matter =
                      BaseKeys \cup {"description"} \cup
                      (CASE kind = "none" -> {}
                         [] kind = "local" ->
                              IF o.raised = "none"
                              THEN {"image", "image_alt"} ELSE {}
                         [] OTHER ->
                              IF o.path # NoName
                              THEN {"image", "image_alt", "image_credit"}
                              ELSE {})]
    /\ trace' = trace \o <<Printed("saving")>> \o
                  (CASE kind = "none" -> <<>>
                     [] kind = "local" ->
                          OptimizeEvents(o)
                              \o <<Printed(IF o.raised = "none"
                                           THEN "thumbnail_optimized"
                                           ELSE "thumbnail_error")>>
                     [] OTHER -> o.events)
    /\ assets' = o.fs

\* save_post up to the insertion of the images: the front matter and the
\* thumbnail, optimized from the local file or downloaded
SaveThumbnail ==
    /\ run.script = "create_post_interactive" /\ run.pc = "save"
    /\ IF run.thumbnail = <<>>
       THEN ThumbnailSaved("none", [fs |-> assets])
       ELSE IF run.thumbnail[1].type = "local"
       THEN \E removes_created \in BOOLEAN :
               ThumbnailSaved("local",
                   optimize_image(assets, clock, run.thumbnail[1].src,
                                  ThumbName(filename_base), TRUE,
                                  removes_created))
       ELSE \E response_ok \in BOOLEAN, removes_created \in BOOLEAN :
               ThumbnailSaved("unsplash",
                   interactive_download_and_optimize_image(
                       env, assets, clock, run.thumbnail[1], filename_base,
                       TRUE, response_ok, removes_created))
    /\ UNCHANGED <<posts, source, clock, call, analyses, report, phase, env>>

\* insert_images_into_content with the outcome o of one image (a local one:
\* what optimize_image did, an exception of which is caught and printed;
\* else what the download did): the Markdown of the image goes into the
\* content unless the step failed
ImageInserted(image, o) ==
    LET path == IF image.type = "local"
                THEN (IF o.raised = "none" THEN o.info.optimized_path
                      ELSE NoName)
                ELSE o.path
    IN  /\ run' = [run EXCEPT
                      !.j = @ + 1,
                      !.inserted = IF path # NoName THEN Append(@, path)
                                   ELSE @,
                      !.markup = IF path # NoName THEN @ + image.markdown
                                 ELSE @]
        /\ trace' = trace \o
                      (IF image.type = "local"
                       THEN OptimizeEvents(o)
                                \o <<Printed(IF o.raised = "none"
                                             THEN "image_optimized"
                                             ELSE "image_error")>>
                       ELSE o.events)
        /\ assets' = o.fs

\* insert_images_into_content: the name of the file for the i-th image when
\* it is a local one, f"{title_clean}-{timestamp}-{i:02d}.jpg"
inline_filename(now, i) ==
    [prefix |-> title_clean, ts |-> strftime_time(now), tag |-> TwoDigits(i),
     ext |-> "jpg"]

\* insert_images_into_content: one round of its loop over the images in
\* the order of their positions
InsertImage ==
    /\ run.script = "create_post_interactive" /\ run.pc = "insert"
    /\ run.j < Len(run.images)
    /\ LET image == SortedByPosition(run.images)[run.j + 1]
       IN  IF image.type = "local"
           THEN \E removes_created \in BOOLEAN :
                   ImageInserted(
                       image,
                       optimize_image(assets, clock, image.src,
                                      inline_filename(clock, run.j), FALSE,
                                      removes_created))
           ELSE \E response_ok \in BOOLEAN, removes_created \in BOOLEAN :
                   ImageInserted(
                       image,
                       interactive_download_and_optimize_image(
                           env, assets, clock, image, title_clean, FALSE,
                           response_ok, removes_created))
    /\ UNCHANGED <<posts, source, clock, call, analyses, report, phase, env>>

\* save_post after insert_images_into_content: under 2000 characters the
\* user may have further sections written (add_additional_sections, with an
\* LLM request), after which the images are inserted once more; then the
\* draft is written
WriteDraft ==
    /\ run.script = "create_post_interactive" /\ run.pc = "insert"
    /\ run.j = Len(run.images)
    /\ \E more \in {"y", "n"}, llm_ok \in BOOLEAN, write_ok \in BOOLEAN :
          LET content_length == run.length + run.markup
              short == run.pass = 1 /\ content_length < 2000
              asked == IF short THEN <<Prompted("add_sections", more)>>
                       ELSE <<>>
              filename == [prefix |-> filename_base,
                           ts |-> strftime_date(clock), tag |-> "",
                           ext |-> "md"]
          IN  IF short /\ more = "y"
              THEN IF ~llm_ok
                   THEN /\ run' = Exit(run, 0)
                        /\ trace' = trace \o asked
                              \o <<Prompted("section", "ai"), LlmRequest,
                                   Printed("error")>>
                   ELSE /\ run' = [run EXCEPT !.pass = 2, !.j = 0,
                                              !.inserted = <<>>,
                                              !.markup = 0]
                        /\ trace' = trace \o asked
                              \o <<Prompted("section", "ai"), LlmRequest>>
              ELSE /\ run' = Exit(run, 0)
                   /\ trace' = trace \o asked \o
                         (IF ~write_ok THEN <<Printed("error")>>
                          ELSE <<MadeDirs("_drafts"),
                                 WroteDraft(filename, run.front_matter,
                                            run.inserted),
                                 Printed("saved")>>)
    /\ UNCHANGED <<posts, source, assets, clock, call, analyses, report,
                   phase, env>>

(***************************************************************************)
(* The runs of the scripts.  Time passes while a script names and writes   *)
(* image files; before that the clock is not read.                         *)
(***************************************************************************)
Tick ==
    /\ clock < MaxClock
    /\ \/ run.pc \in {"save", "insert"}
       \/ run.script = "batch_optimize" /\ run.pc = "loop"
    /\ clock' = clock + 1
    /\ UNCHANGED <<posts, source, assets, call, analyses, report, phase,
                   env, run, trace>>

\* the paths handed to batch_optimize
BatchSources ==
    {Source("photo.jpg", "JPEG", "RGB", 800, 600, 6),
     Source("scan.png", "PNG", "LA", 640, 480, 0),
     Missing("gone.jpg")}
RECURSIVE SeqsUpTo(_, _)
SeqsUpTo(S, n) ==
    IF n = 0 THEN {<<>>}
    ELSE LET shorter == SeqsUpTo(S, n - 1)
         IN  shorter \cup {Append(q, x) : q \in shorter, x \in S}

InitScripts ==
    /\ posts = <<>>
    /\ source = NoSource
    /\ assets = <<>>
    /\ clock = 0
    /\ call = NoCall
    /\ analyses = <<>>
    /\ report = NoReport
    /\ phase = "idle"
    /\ trace = <<>>
    /\ \/ /\ env \in [OPENAI_API_KEY : KeyStates,
                      UNSPLASH_ACCESS_KEY : KeyStates]
          /\ run \in {GenerateRun, AutoRun, InteractiveRun}
       \/ /\ env = NoEnv
          /\ run \in {BatchRun(image_paths, prefix) :
                         image_paths \in SeqsUpTo(BatchSources, MaxBatch),
                         prefix \in {"", "post"}}

NextScripts ==
    \/ ImportModule
    \/ GenerateMain \/ GenerateArticle \/ GenerateFinish
    \/ BatchOptimizeEntry \/ BatchOptimizeReturn
    \/ AutoMain \/ GetOverview \/ GenerateCompleteArticle
    \/ FetchAndSelectImages \/ AutoSaveThumbnail \/ AutoInsertImage
    \/ AutoWriteArticle
    \/ InteractiveMain \/ InteractiveDraft \/ ChooseMethod \/ AddThumbnail
    \/ AskInline \/ AddInlineImage \/ Review \/ SaveThumbnail
    \/ InsertImage \/ WriteDraft
    \/ Tick

SpecScripts == InitScripts /\ [][NextScripts]_vars

(***************************************************************************)
(* Claims about the runs of the scripts.                                   *)
(***************************************************************************)
\* the image files opened for writing during the run, in the order of the
\* writes
ImageWrites ==
    SelectSeq(trace, LAMBDA e : e.kind = "write" /\ e.dir = "assets")

\* C12: image file names do not collide: of the image writes of one run
\* (one post, one batch), two writes within the same clock second included,
\* each goes to a path different from every image path written earlier, so
\* that no earlier image is overwritten.
C12_NoCollision ==
    \A m, n \in 1..Len(ImageWrites) :
        (m < n /\ ImageWrites[m].complete) =>
            ImageWrites[m].path # ImageWrites[n].path

\* the messages "記事 n/3 を生成中" of the run, the drafts written and the
\* messages of the except clause of main, each in the order of the trace
Attempts ==
    SelectSeq(trace, LAMBDA e : e.kind = "print" /\ e.text = "generating")
DraftWrites ==
    SelectSeq(trace, LAMBDA e : e.kind = "write" /\ e.dir = "_drafts")
CaughtErrors ==
    SelectSeq(trace, LAMBDA e : e.kind = "print" /\ e.text = "error")

\* C13: skip and continue, never retry.  In generate_post.main the topics
\* 1, 2, 3 are attempted once each, in this order, whatever failed before;
\* a failed topic is reported and left out, and generated_files holds
\* exactly the drafts that were written.  batch_optimize appends exactly one
\* result per input path, in input order: a success with the data of that
\* path or a failure with the error and that path; at the return there is
\* one result for every path.
C13_SkipAndContinue ==
    /\ (run.script = "generate_post" /\ run.pc = "loop") =>
          /\ run.i \in 0..ArticleCount
          /\ Attempts = [n \in 1..run.i |-> PrintedCount("generating", n)]
          /\ run.generated_files =
                [n \in 1..Len(DraftWrites) |-> DraftWrites[n].path]
          /\ Len(run.generated_files) + Len(CaughtErrors) = run.i
    /\ (run.script = "generate_post" /\ run.pc = "exited"
                                     /\ run.status = 0) =>
          /\ Attempts = [n \in 1..ArticleCount |->
                            PrintedCount("generating", n)]
          /\ run.generated_files =
                [n \in 1..Len(DraftWrites) |-> DraftWrites[n].path]
          /\ Len(run.generated_files) + Len(CaughtErrors) = ArticleCount
    /\ run.script = "batch_optimize" =>
          /\ Len(run.results) = run.i
          /\ run.i <= Len(run.image_paths)
          /\ run.pc = "returned" => Len(run.results) = Len(run.image_paths)
          /\ \A k \in 1..Len(run.results) :
                LET path == run.image_paths[k]
                    entry == run.results[k]
                IN  IF entry.success
                    THEN /\ path.exists
                         /\ entry.path = entry.info.optimized_path
                         /\ entry.info.original_dimensions =
                                <<path.width, path.height>>
                    ELSE /\ entry.original_path = path.path
                         /\ entry.error # "none"
                         /\ ~path.exists => entry.error = "FileNotFoundError"

\* generate_post ran to its end although the second of its three articles
\* failed: the first and the third are the generated files
C13_Witness ==
    /\ run.script = "generate_post" /\ run.pc = "exited" /\ run.status = 0
    /\ Len(run.generated_files) = 2
    /\ \E k \in 2..(Len(trace) - 1) :
          /\ trace[k] = Printed("error")
          /\ trace[k - 1] = LlmRequest
          /\ trace[k + 1] = PrintedCount("generating", 3)
          /\ \E j \in 1..(k - 1) :
                /\ trace[j] = Printed("saved")
                /\ trace[j + 1] = PrintedCount("generating", 2)

GeneratorScripts ==
    {"generate_post", "create_post_auto", "create_post_interactive"}

\* C15: a missing LLM API key is fatal before any work.  With
\* OPENAI_API_KEY absent (or empty) a generator script never gets past the
\* first statement of main(): it makes no LLM request, no image search or
\* download, puts no question to the user and writes no file or directory;
\* all it does is print, and when it exits its status is not 0.
C15_MissingKeyFatal ==
    (run.script \in GeneratorScripts /\ ~Truthy(env.OPENAI_API_KEY)) =>
        /\ run.pc \in {"import", "main", "exited"}
        /\ \A k \in 1..Len(trace) : trace[k].kind = "print"
        /\ assets = <<>>
        /\ run.pc = "exited" => run.status # 0

\* the interactive creator, started without the key, has left through the
\* check of main()
C15_Witness ==
    /\ run.script = "create_post_interactive"
    /\ env.OPENAI_API_KEY = "absent"
    /\ run.pc = "exited" /\ run.status = 1
    /\ trace = <<Printed("no_api_key")>>

ImageKeys == {"image", "image_alt", "image_credit"}

\* C16: graceful degradation without the photo-search key.  With
\* UNSPLASH_ACCESS_KEY absent (or empty) no image search and no image
\* download is requested and no image file is written; every draft that
\* generate_post or create_post_auto saves has none of the keys image,
\* image_alt and image_credit in its front matter and no inserted image in
\* its body.  The same holds for the interactive creator as long as the user
\* does not supply local image files.
C16_NoPhotoKey ==
    (run.script \in GeneratorScripts /\ ~Truthy(env.UNSPLASH_ACCESS_KEY)) =>
        /\ \A k \in 1..Len(trace) :
              trace[k].kind \notin {"image_search", "image_download"}
        /\ (run.script # "create_post_interactive" \/ run.method # "local") =>
              /\ ImageWrites = <<>>
              /\ assets = <<>>
              /\ \A k \in 1..Len(DraftWrites) :
                    /\ DraftWrites[k].front_matter \cap ImageKeys = {}
                    /\ DraftWrites[k].images = <<>>

\* without the photo key generate_post has saved its three articles
C16_Witness ==
    /\ env.UNSPLASH_ACCESS_KEY = "absent"
    /\ run.script = "generate_post"
    /\ run.pc = "exited" /\ run.status = 0
    /\ Len(run.generated_files) = ArticleCount
    /\ Len(DraftWrites) = ArticleCount

MissingPathPrompts ==
    {k \in 1..Len(trace) :
        /\ trace[k].kind = "prompt"
        /\ trace[k].question \in {"thumbnail_path", "image_path"}
        /\ trace[k].answer = "gone.jpg"}

\* C17: when the user names a local image file that does not exist, for the
\* thumbnail as well as for an inline image, the interactive creator reports
\* the missing file and skips only that image step: the message follows the
\* answer, no image entry is recorded for the path, and the session is not
\* ended by it.
C17_MissingLocalReported ==
    run.script = "create_post_interactive" =>
        /\ \A k \in MissingPathPrompts :
              /\ k < Len(trace)
              /\ trace[k + 1] = Printed("file_not_found")
              /\ k + 1 = Len(trace) => run.pc # "exited"
        /\ \A k \in 1..Len(run.thumbnail) :
              run.thumbnail[k].type = "local" => run.thumbnail[k].src.exists
        /\ \A k \in 1..Len(run.images) :
              run.images[k].type = "local" => run.images[k].src.exists

(***************************************************************************)
(* Claims about the run of seo_analyzer.main and about the analyzers.      *)
(***************************************************************************)
\* the files main() finds whose analysis does not raise
Analysable ==
    {f \in DOMAIN posts : analyze_post(f, posts[f]).raised = "none"}

\* C14: in the batch run of the scorer a failure while one file is read or
\* analysed is handled by skipping that file: the run goes on with the
\* remaining files, and the report is written for them.
C14_FailureSkipsFile ==
    /\ (IsAnalyze /\ call.result.raised # "none") =>
          phase \in {"_posts", "_drafts", "done"}
    /\ phase = "done" =>
          /\ report.written
          /\ report.count = Cardinality(Analysable)

\* the title of the analysed document with and without a power word, all
\* else equal
WithPowerWord == [call.post.title EXCEPT !.power_word = TRUE]
WithoutPowerWord == [call.post.title EXCEPT !.power_word = FALSE]
\* the title score without the part the power-word rule contributes
TitleBase ==
    20 - (IF \/ call.post.title.length < 25
             \/ call.post.title.length > 35 THEN 5 ELSE 0)
       + (IF call.post.title.digit THEN 5 ELSE 0)

C19_NegativeSumExists ==
    \E post \in ScoreDocs \cup {posts[f] : f \in DOMAIN posts} :
        LET r == analyze_post(File("_posts", 1), post)
        IN  r.raised = "none" /\ r.total < 0

\* C19, amended: the sum of the five category scores is never negative.  It
\* is at least 17 (title 0, description 0, content 7, images 0, links 10),
\* so that the lower clamp at 0 never changes the result.
C19_SumAtLeast17 ==
    Analyzed =>
        /\ call.result.total =
              call.result.title_score + call.result.meta_score
              + call.result.content_score + call.result.image_score
              + call.result.link_score
        /\ call.result.total >= 17
        /\ Max(0, call.result.total) = call.result.total
        /\ call.result.analysis.score = Min(100, call.result.total)

\* the worst document: no title, no description, a short body with two
\* level-2 headings, no level-3 heading, a keyword that never occurs, no
\* image and no link
C19_Witness ==
    /\ Analyzed
    /\ call.result.title_score = 0 /\ call.result.meta_score = 0
    /\ call.result.content_score = 7 /\ call.result.image_score = 0
    /\ call.result.link_score = 10
    /\ call.result.total = 17 /\ call.result.analysis.score = 17

(***************************************************************************)
(* The body rules of analyze_content: documents with a body around the two *)
(* length thresholds and with every small number of headings.              *)
(***************************************************************************)
ContentLengths ==
    {min_word_count - LenSlack, min_word_count, min_word_count + LenSlack,
     max_word_count - LenSlack, max_word_count, max_word_count + LenSlack}
ContentDocs ==
    {Doc(Title(30, TRUE, TRUE), 140, n, Items(h2, h3, 3, "img_alt_ext"), kw,
         "with_alt") :
        n \in ContentLengths, h2 \in 0..4, h3 \in 0..2, kw \in ScoreKeywords}
InitContent == InitMain({File("_posts", 1)}, ContentDocs)
SpecContent == InitContent /\ [][NextMain]_vars

\* the deduction and the issue of the keyword rule, which the body rules
\* do not concern
KeywordIssues ==
    {k \in DOMAIN call.result.content_issues :
        call.result.content_issues[k][1] \in {"keyword_low", "keyword_high"}}

\* C20: body length and heading rules.  Starting from 30, analyze_content
\* deducts 10 for a body of fewer than 1000 characters, else 5 for one of
\* more than 3000 (never both, 1000 and 3000 are not penalized), 5 for fewer
\* than 3 level-2 headings, and 3 when there is a level-2 heading and no
\* level-3 heading.  A level-3 heading is not counted as a level-2 heading,
\* and each deduction adds exactly one issue.
C20_BodyRules ==
    Analyzed =>
        LET post == call.post
            short == post.length < 1000
            long == post.length > 3000
            few_h2 == post.items["h2"] < 3
            no_h3 == post.items["h2"] > 0 /\ post.items["h3"] = 0
            deductions == (IF short THEN 1 ELSE 0) + (IF long THEN 1 ELSE 0)
                          + (IF few_h2 THEN 1 ELSE 0)
                          + (IF no_h3 THEN 1 ELSE 0)
            issues == call.result.content_issues
            texts == {issues[k][1] : k \in DOMAIN issues}
        IN  /\ call.result.content_score + 5 * Cardinality(KeywordIssues) =
                  30 - (IF short THEN 10 ELSE IF long THEN 5 ELSE 0)
                     - (IF few_h2 THEN 5 ELSE 0)
                     - (IF no_h3 THEN 3 ELSE 0)
            /\ Len(issues) = deductions + Cardinality(KeywordIssues)
            /\ "content_short" \in texts <=> short
            /\ "content_long" \in texts <=> long
            /\ "few_h2" \in texts <=> few_h2
            /\ "no_h3" \in texts <=> no_h3
            /\ \A k \in DOMAIN issues :
                  issues[k][1] = "few_h2" => issues[k][2] = post.items["h2"]

\* a body of exactly 3000 characters with two level-3 headings and no
\* level-2 heading loses only the 5 points for too few level-2 headings
C20_Witness ==
    /\ Analyzed
    /\ call.post.length = 3000
    /\ call.post.items["h2"] = 0 /\ call.post.items["h3"] = 2
    /\ call.post.keyword = NoCategories
    /\ call.result.content_score = 25
    /\ call.result.content_issues = << <<"few_h2", 0>> >>

(***************************************************************************)
(* The keyword rule of analyze_content: a keyword of five characters that  *)
(* occurs 0 to 7 times in bodies around 1000 characters, so that the       *)
(* density lies below, on and above 0.5 and 3.                             *)
(***************************************************************************)
KeywordDocs ==
    {Doc(Title(30, TRUE, TRUE), 140, n, Items(h2, 1, 3, "img_alt_ext"), kw,
         "with_alt") :
        n \in {min_word_count - LenSlack, min_word_count,
               min_word_count + LenSlack, 1500},
        h2 \in {0, 3},
        kw \in {NoCategories} \cup {Keyword(5, c) : c \in 0..7}}
InitKeyword == InitMain({File("_posts", 1)}, KeywordDocs)
SpecKeyword == InitKeyword /\ [][NextMain]_vars

\* what the length and heading rules deduct from the content score of the
\* analysed document
BodyDeductions ==
    (IF call.post.length < 1000 THEN 10
     ELSE IF call.post.length > 3000 THEN 5 ELSE 0)
    + (IF call.post.items["h2"] < 3 THEN 5 ELSE 0)
    + (IF call.post.items["h2"] > 0 /\ call.post.items["h3"] = 0
       THEN 3 ELSE 0)

\* C21: keyword-density rule.  For a document with a category (and a body
\* that is not empty) the density is count x keyword length / body length
\* x 100; analyze_content deducts exactly 5 when it is below 0.5 or above 3
\* and nothing when it is from 0.5 to 3, the two bounds included; without a
\* category nothing is deducted.  density < 0.5 is 200 x count x length <
\* body length, density > 3 is 100 x count x length > 3 x body length.
C21_KeywordDensity ==
    (Analyzed /\ call.post.length > 0) =>
        LET kw == call.post.keyword
            listed == kw.length > 0
            low == listed /\ 200 * kw.count * kw.length < call.post.length
            high == listed /\ 100 * kw.count * kw.length > 3 * call.post.length
            issues == call.result.content_issues
            texts == {issues[k][1] : k \in DOMAIN issues}
        IN  /\ call.result.content_score =
                  30 - BodyDeductions - (IF low \/ high THEN 5 ELSE 0)
            /\ "keyword_low" \in texts <=> low
            /\ "keyword_high" \in texts <=> high
            /\ Cardinality(KeywordIssues) = (IF low \/ high THEN 1 ELSE 0)

\* a keyword of 5 characters that occurs once in a body of 1000 characters
\* has density 0.5 and costs nothing
C21_Witness ==
    /\ Analyzed
    /\ call.post.length = 1000 /\ call.post.keyword = Keyword(5, 1)
    /\ call.post.items["h2"] = 3
    /\ call.result.content_score = 30
    /\ call.result.content_issues = <<>>

(***************************************************************************)
(* The image and link rules: bodies with 0 to 3 root-relative links and    *)
(* with inline images of every kind, several of them without alt text,     *)
(* under every kind of cover image.                                        *)
(***************************************************************************)
MarkupItems ==
    {[k \in ItemKinds |->
        CASE k = "h2" -> 3
          [] k = "h3" -> 1
          [] k = "link_root" -> links
          [] k = "link_ext" -> ext
          [] k = "img_alt_root" -> alt_root
          [] k = "img_alt_ext" -> alt_ext
          [] k = "img_noalt_root" -> noalt_root
          [] k = "img_noalt_ext" -> noalt_ext] :
        links \in 0..3, ext \in 0..1, alt_root \in 0..2, alt_ext \in 0..1,
        noalt_root \in 0..1, noalt_ext \in 0..2}
MarkupDocs ==
    {Doc(Title(30, TRUE, TRUE), 140, 1500, it, NoCategories, im) :
        it \in MarkupItems, im \in CoverImages}
InitMarkup == InitMain({File("_posts", 1)}, MarkupDocs)
SpecMarkup == InitMarkup /\ [][NextMain]_vars

\* the issues of the image category of the analysed document, by text
ImageIssues(text) ==
    {k \in DOMAIN call.result.image_issues :
        call.result.image_issues[k][1] = text}

\* C22: image rules.  Starting from 15, analyze_images deducts 10 when no
\* cover image is set, otherwise 5 when the cover image has no alt text,
\* never both; it deducts 5 more when the body has no inline image; when
\* some inline image has empty alt text it adds exactly one issue, however
\* many such images there are, and deducts nothing.  The score is one of 0,
\* 5, 10, 15.
C22_ImageRules ==
    Analyzed =>
        LET post == call.post
            inline == SumOver(post.items, {"img_alt_root", "img_alt_ext",
                                           "img_noalt_root", "img_noalt_ext"})
            empty == post.items["img_noalt_root"] + post.items["img_noalt_ext"]
        IN  /\ call.result.image_score =
                  15 - (IF post.image = "none" THEN 10
                        ELSE IF post.image = "plain" THEN 5 ELSE 0)
                     - (IF inline = 0 THEN 5 ELSE 0)
            /\ call.result.image_score \in {0, 5, 10, 15}
            /\ Cardinality(ImageIssues("no_cover_image")) =
                  (IF post.image = "none" THEN 1 ELSE 0)
            /\ Cardinality(ImageIssues("cover_no_alt")) =
                  (IF post.image = "plain" THEN 1 ELSE 0)
            /\ Cardinality(ImageIssues("no_inline_image")) =
                  (IF inline = 0 THEN 1 ELSE 0)
            /\ Cardinality(ImageIssues("empty_alt")) =
                  (IF empty > 0 THEN 1 ELSE 0)

\* three inline images without alt text under a complete cover image: one
\* issue, full score
C22_Witness ==
    /\ Analyzed
    /\ call.post.image = "with_alt"
    /\ call.post.items["img_noalt_root"] + call.post.items["img_noalt_ext"] = 3
    /\ call.result.image_score = 15
    /\ call.result.image_issues = << <<"empty_alt">> >>

\* C23: internal-link rule.  analyze_internal_links returns 10 when the body
\* contains no Markdown link whose target starts with '/', 15 when it
\* contains one or two and 20 when it contains three or more; an inline
\* image with a root-relative path is not counted as a link.
C23_OnlyLinksCounted ==
    Analyzed =>
        LET links == call.post.items["link_root"]
        IN  call.result.link_score =
                (IF links = 0 THEN 10 ELSE IF links < 3 THEN 15 ELSE 20)

(***************************************************************************)
(* Claims about generate_suggestions, over the documents of every shape.   *)
(***************************************************************************)
\* the issues of the analysed document for which the table has a template
MatchedIssues ==
    SelectSeq(call.result.analysis.issues, LAMBDA issue : Mentions(issue) # {})

\* C24: suggestion mapping.  generate_suggestions maps each issue, in issue
\* order, to at most one suggestion, the first template of the fixed table
\* whose phrase occurs in the issue, or none: the suggestions are, in order,
\* the templates of the issues that match one, so they are never more than
\* the issues, and an issue gets its suggestion also when an earlier issue
\* got the same one.
C24_SuggestionMapping ==
    Analyzed =>
        LET suggestions == call.result.analysis.suggestions
        IN  /\ Len(suggestions) <= Len(call.result.analysis.issues)
            /\ Len(suggestions) = Len(MatchedIssues)
            /\ \A k \in DOMAIN suggestions :
                  \E i \in DOMAIN SuggestionTable :
                     /\ suggestions[k] = SuggestionTable[i]
                     /\ SuggestionTable[i] \in Mentions(MatchedIssues[k])
                     /\ \A j \in 1..(i - 1) :
                           SuggestionTable[j] \notin Mentions(MatchedIssues[k])

\* a document without cover image and without inline image: both issues
\* mention the image, the same suggestion is given twice in a row; its
\* missing H3 headings get no suggestion
C24_Witness ==
    /\ Analyzed
    /\ call.result.image_issues = << <<"no_cover_image">>, <<"no_inline_image">> >>
    /\ <<"no_h3">> \in {call.result.content_issues[k] :
                            k \in DOMAIN call.result.content_issues}
    /\ LET suggestions == call.result.analysis.suggestions
       IN  /\ \E k \in DOMAIN suggestions :
                 /\ k + 1 \in DOMAIN suggestions
                 /\ suggestions[k] = "image" /\ suggestions[k + 1] = "image"
           /\ Len(suggestions) < Len(call.result.analysis.issues)

(***************************************************************************)
(* Claims about the orientation fix of optimize_image.                     *)
(***************************************************************************)
\* the degrees the EXIF orientation of a source asks for; metadata that
\* _getexif cannot read (no such method for the format, damaged block) asks
\* for nothing
RequestedTurn(src) ==
    IF src.format # "JPEG" THEN 0
    ELSE CASE src.orientation = 3 -> 180
           [] src.orientation = 6 -> 270
           [] src.orientation = 8 -> 90
           [] OTHER -> 0

C26_DraftsDistinct ==
    (run.script = "generate_post" /\ run.pc = "loop") =>
        /\ \A m, n \in 1..Len(DraftWrites) :
              m < n => DraftWrites[m].path # DraftWrites[n].path
        /\ \A m, n \in 1..Len(run.generated_files) :
              m < n => run.generated_files[m] # run.generated_files[n]

\* C27: analyze_post returns an analysis (score, issues, suggestions) for
\* every document whose front matter parses, a document with an empty body
\* and a non-empty categories list included: analyze_content does not raise.
C27_AnalysisForEveryDocument ==
    IsAnalyze =>
        /\ call.result.raised = "none"
        /\ {"score", "issues", "suggestions"} \subseteq DOMAIN call.result.analysis

\* the inline image files (not the thumbnail) written completely during the
\* run, in the order of the writes
InlineWrites ==
    SelectSeq(ImageWrites, LAMBDA e : e.complete /\ e.path.tag # "thumb")

\* C28: during one call of InteractivePostCreator.save_post each image of
\* post_data['images'] is downloaded or optimized and written to the assets
\* directory at most once, and the saved draft refers to exactly the files
\* written for it, also when the body is under 2000 characters and the user
\* has further sections added before the draft is saved.
C28_ImagesWrittenOnce ==
    (run.script = "create_post_interactive" /\ run.pc \in {"insert", "exited"}) =>
        /\ Len(InlineWrites) <= Len(run.images)
        /\ DraftWrites # <<>> =>
              {InlineWrites[k].path : k \in DOMAIN InlineWrites}
                  = {DraftWrites[1].images[k] : k \in DOMAIN DraftWrites[1].images}

(***************************************************************************)
(* Claims about the files optimize_image writes.                           *)
(***************************************************************************)
\* the file the last call of optimize_image wrote
Written == assets[call.result.save_path]

\* C29: after optimize_image has rotated the pixels according to the
\* orientation tag of the source, the file it writes carries no orientation
\* metadata that still asks for that rotation: a viewer that honours the
\* metadata of the written file shows the image upright.
C29_NoSecondRotation ==
    (Returned /\ Written.turn # 0) =>
        Written.orientation \notin DOMAIN rotations

\* C30: for every file optimize_image writes, the encoding of the written
\* bytes (JPEG or PNG) is the one the extension of its name stands for, for
\* auto-generated names and for names the caller supplies such as
\* <base>-thumb.jpg.
C30_EncodingMatchesExtension ==
    Returned =>
        Written.encoding =
            (IF call.result.save_path.ext = "png" THEN "PNG" ELSE "JPEG")

====
